---- MODULE Spec2Model ----
(***************************************************************************)
(* PacketPilot-IPO: the measurement-statistics and recommendation pipeline *)
(*   ping_distribution.py  PingMeasurement._compute_statistics             *)
(*   json_schema.py        calculate_bufferbloat_grade                     *)
(*   dns_bench.py          DNSBenchmark.benchmark_resolver / benchmark_all *)
(*   recommendation.py     RecommendationEngine.generate and its rules     *)
(*                                                                         *)
(* Python floats are modelled as exact rationals <<n, d>> in lowest terms  *)
(* with d > 0, so that equal values are equal tuples.  Rounding error of   *)
(* binary floating point is outside the model.                             *)
(***************************************************************************)
EXTENDS Integers, Sequences, FiniteSets, TLC

VARIABLES
    config_count,    \* PingConfig.count
    samples,         \* successful latencies parsed so far, in arrival order
    failures,        \* failed pings counted so far
    icmp,            \* the ICMPResult returned, or NoResult
    ping_pc,         \* "probing" | "done"
    pct_data,        \* percentile: the sorted data of the calls
    pct_p,           \* percentile: p of the latest call
    pct_value,       \* percentile: what the latest call returned
    pct_prev_p,      \* percentile: p and result of the call before it
    pct_prev_value,
    pct_calls,       \* percentile: calls made so far, counted up to 2
    latency_increase_ms,  \* argument of the latest calculate_bufferbloat_grade call
    grade,                \* the BufferbloatGrade it returned
    prev_increase_ms,     \* argument and result of the call before it
    prev_grade,
    platform_system,      \* platform.system() of the host
    benchmark,            \* the BenchmarkResult of the latest generate call
    recommendations,      \* RecommendationEngine.recommendations
    returned,             \* the list the latest generate call returned
    rec_pc,               \* "constructed" | "returned": has generate returned yet
    earlier,              \* the list the call before it returned, as its caller sees it now
    earlier_returned,     \* the elements that list had when it was returned (history)
    resolver_idx,         \* benchmark_all: position in self.resolvers
    future_state,         \* per domain: "none" | "pending" | "running" | "done" | "collected"
    future_result,        \* per finished query: what _query_domain returned
    attempts,             \* per domain: how often its query was run (history)
    query_resolver,       \* per domain: position of the resolver its latest query went to (history)
    counted,              \* per domain: how often its outcome was counted (history)
    query_times,          \* benchmark_resolver: latencies in completion order
    dns_failures,         \* benchmark_resolver: failures
    results,              \* benchmark_all: results in resolver order
    failed_resolvers,     \* resolvers whose queries all failed (history)
    ranked,               \* the list benchmark_all returned
    dns_pc,               \* "start" | "pool" | "done"
    default_timeout,      \* the socket module's process-wide default timeout
    first_timeout,        \* its value before the first fallback query (history)
    fallback_pc,          \* per _query_domain_fallback call: the statement it is at
    old_timeout,          \* per call: its local old_timeout
    fallback_result,      \* per call: what it returned, "duration" or "-1"
    loop_running,         \* run_full_benchmark runs on a running asyncio event loop (as
                          \* under run_and_save); FALSE when its coroutine is driven without one
    skip_throughput,      \* arguments of run_full_benchmark
    skip_dns,
    bench_pc,             \* the phase run_full_benchmark is about to run, "returned" or "raised"
    icmp_result,          \* locals of run_full_benchmark, Unbound until assigned
    throughput_result,
    jitter_result,
    bufferbloat_result,
    dns_results,
    bound,                \* the result locals assigned so far
    invoked,              \* the collaborators called so far, in call order (history)
    in_progress,          \* the collaborators called that have not returned or raised yet
    bench_failed,         \* the phases in which a collaborator failed (history)
    full_benchmark,       \* the BenchmarkResult returned, Unbound before
    schema_kind,          \* the json_schema model class being constructed
    schema_args,          \* the keyword arguments given to its constructor
    schema_obj,           \* the object constructed, Unbound before and on ValidationError
    schema_pc,            \* "ready" | "constructed" | "ValidationError" | "dumped" | "rebuilt"
    dumped,               \* save_benchmark: benchmark.model_dump(mode='json')
    rebuilt               \* recommend: BenchmarkResult(**data)

pctVars == <<pct_data, pct_p, pct_value, pct_prev_p, pct_prev_value, pct_calls>>

pingVars == <<config_count, samples, failures, icmp, ping_pc, pctVars>>

gradeVars == <<latency_increase_ms, grade, prev_increase_ms, prev_grade>>

recVars == <<platform_system, benchmark, recommendations, returned, rec_pc,
             earlier, earlier_returned>>

fallbackVars == <<default_timeout, first_timeout, fallback_pc, old_timeout,
                  fallback_result>>

dnsVars == <<resolver_idx, future_state, future_result, attempts, query_resolver, counted,
             query_times, dns_failures, results, failed_resolvers, ranked, dns_pc,
             fallbackVars>>

benchVars == <<loop_running, skip_throughput, skip_dns, bench_pc, icmp_result,
               throughput_result, jitter_result, bufferbloat_result,
               dns_results, bound, invoked, in_progress, bench_failed,
               full_benchmark>>

schemaVars == <<schema_kind, schema_args, schema_obj, schema_pc, dumped, rebuilt>>

vars == <<pingVars, gradeVars, recVars, dnsVars, benchVars, schemaVars>>

NoResult == "none"

\* a local variable or attribute of record type that is not assigned yet
Unbound == [unbound |-> TRUE]

----------------------------------------------------------------------------
(* Bounds of the model *)

MaxCount == 3
MaxSamples == 4
MaxFailures == 2
MaxLatency == 3
\* calculate_bufferbloat_grade is applied to 0, 10, 20, .. MaxIncreaseMs ms and
\* to every tenth of a ms within GradeSpread tenths of a threshold
MaxIncreaseMs == 420
GradeSpread == 2
\* the DNS benchmark queries NumDomains domains with a pool of MaxWorkers
NumDomains == 3
MaxWorkers == 2
\* the fallback queries the pool's threads run side by side
MaxFallbackCalls == 2

----------------------------------------------------------------------------
(* Exact rational arithmetic standing for Python float arithmetic *)

Abs(n) == IF n < 0 THEN -n ELSE n

RECURSIVE GCD(_, _)
GCD(a, b) == IF b = 0 THEN a ELSE GCD(b, a % b)

Rat(n, d) ==
    LET g == GCD(Abs(n), Abs(d))
        s == IF d < 0 THEN -1 ELSE 1
    IN  <<(s * n) \div g, (s * d) \div g>>

RInt(n) == <<n, 1>>
RAdd(a, b) == Rat(a[1] * b[2] + b[1] * a[2], a[2] * b[2])
RSub(a, b) == Rat(a[1] * b[2] - b[1] * a[2], a[2] * b[2])
RMul(a, b) == Rat(a[1] * b[1], a[2] * b[2])
RDiv(a, b) == Rat(a[1] * b[2], a[2] * b[1])
RLt(a, b) == a[1] * b[2] < b[1] * a[2]
RLe(a, b) == a[1] * b[2] <= b[1] * a[2]
RGt(a, b) == RLt(b, a)
\* int(x) of a float: truncation toward zero
RTrunc(a) == IF a[1] >= 0 THEN a[1] \div a[2] ELSE -((-a[1]) \div a[2])

\* math.sqrt(v), kept symbolic: Sqrt(v) = Sqrt(w) iff v = w
Sqrt(v) == [sqrt_of |-> v]

----------------------------------------------------------------------------
(* ping_distribution.py *)

\* the stable merge of two ascending runs: an element of b goes behind the
\* elements of a that are not larger
RECURSIVE Merge(_, _)
Merge(a, b) ==
    IF a = <<>> THEN b
    ELSE IF b = <<>> THEN a
    ELSE LET m == (Len(a) + 1) \div 2
             below == Cardinality({j \in 1..Len(b) : RLt(b[j], a[m])})
         IN  Merge(SubSeq(a, 1, m - 1), SubSeq(b, 1, below))
                 \o <<a[m]>>
                 \o Merge(SubSeq(a, m + 1, Len(a)), SubSeq(b, below + 1, Len(b)))

\* a stable merge sort, as Python's sorted is
RECURSIVE SortedStable(_)
SortedStable(s) ==
    IF Len(s) <= 1 THEN s
    ELSE LET h == Len(s) \div 2
         IN  Merge(SortedStable(SubSeq(s, 1, h)),
                   SortedStable(SubSeq(s, h + 1, Len(s))))

\* sorted(samples), ascending
sorted(s) == SortedStable(s)

\* min(samples): the first of the smallest elements
PyMin(s) == s[CHOOSE i \in 1..Len(s) :
                /\ \A j \in 1..Len(s) : RLe(s[i], s[j])
                /\ \A j \in 1..(i - 1) : RLt(s[i], s[j])]

\* max(samples): the first of the largest elements
PyMax(s) == s[CHOOSE i \in 1..Len(s) :
                /\ \A j \in 1..Len(s) : RLe(s[j], s[i])
                /\ \A j \in 1..(i - 1) : RLt(s[j], s[i])]

\* the sum of s, added up by halves
RECURSIVE RSum(_)
RSum(s) ==
    IF s = <<>> THEN RInt(0)
    ELSE IF Len(s) = 1 THEN s[1]
    ELSE LET h == Len(s) \div 2
         IN  RAdd(RSum(SubSeq(s, 1, h)), RSum(SubSeq(s, h + 1, Len(s))))

\* statistics.mean
mean(s) == RDiv(RSum(s), RInt(Len(s)))

\* statistics.stdev: the sample (n-1) standard deviation
stdev(s) ==
    LET m == mean(s)
        sq == [i \in 1..Len(s) |-> RMul(RSub(s[i], m), RSub(s[i], m))]
    IN  Sqrt(RDiv(RSum(sq), RInt(Len(s) - 1)))

\* the order statistic at the floor of the rank, without interpolation
percentile_lower(data, p) ==
    IF data = <<>> THEN RInt(0)
    ELSE data[RTrunc(RMul(RInt(Len(data) - 1), p)) + 1]

\* the nested helper percentile(data, p); indices are 0-based in the code
percentile(data, p) ==
    IF data = <<>> THEN RInt(0)
    ELSE LET k == RMul(RInt(Len(data) - 1), p)
             f == RTrunc(k)
             c == RTrunc(k) + 1
         IN  IF c >= Len(data) THEN data[Len(data)]
             ELSE RAdd(data[f + 1],
                       RMul(RSub(k, RInt(f)), RSub(data[c + 1], data[f + 1])))

total_attempts_from_count(count, smp, fails) == count

total_attempts(count, smp, fails) == Len(smp) + fails

\* the samples field of the zero-sample sentinel
sentinel_samples(count, fails) == count

unsorted(s) == s

sorted_samples(s) == sorted(s)

RawCap == 100

whole_list(s, n) == s

Prefix(s, n) == SubSeq(s, 1, IF Len(s) < n THEN Len(s) ELSE n)

compute_statistics(count, smp, fails) ==
    IF smp = <<>>
    THEN [samples |-> sentinel_samples(count, fails),
          p50 |-> RInt(0), p90 |-> RInt(0), p95 |-> RInt(0), p99 |-> RInt(0),
          min |-> RInt(0), max |-> RInt(0), mean |-> RInt(0),
          stddev |-> Sqrt(RInt(0)),
          packet_loss |-> RInt(100),
          raw_samples |-> <<>>]
    ELSE LET ss == sorted_samples(smp)
             total == total_attempts(count, smp, fails)
         IN  [samples |-> total,
              p50 |-> percentile(ss, Rat(50, 100)),
              p90 |-> percentile(ss, Rat(90, 100)),
              p95 |-> percentile(ss, Rat(95, 100)),
              p99 |-> percentile(ss, Rat(99, 100)),
              min |-> PyMin(smp),
              max |-> PyMax(smp),
              mean |-> mean(smp),
              stddev |-> IF Len(smp) > 1 THEN stdev(smp) ELSE Sqrt(RInt(0)),
              packet_loss |-> IF total > 0
                              THEN RMul(RDiv(RInt(fails), RInt(total)), RInt(100))
                              ELSE RInt(100),
              raw_samples |-> Prefix(smp, RawCap)]

IdlePct ==
    /\ pct_data = <<>>
    /\ pct_p = <<0, 1>>
    /\ pct_value = <<0, 1>>
    /\ pct_prev_p = <<0, 1>>
    /\ pct_prev_value = <<0, 1>>
    /\ pct_calls = 0

IdlePing ==
    /\ IdlePct
    /\ config_count = 1
    /\ samples = <<>>
    /\ failures = 0
    /\ icmp = NoResult
    /\ ping_pc = "idle"

IdleGrade ==
    /\ latency_increase_ms = NoResult
    /\ grade = NoResult
    /\ prev_increase_ms = NoResult
    /\ prev_grade = NoResult

IdleFallback ==
    /\ default_timeout = <<0, 0>>
    /\ first_timeout = <<0, 0>>
    /\ fallback_pc = <<>>
    /\ old_timeout = <<>>
    /\ fallback_result = <<>>

IdleDns ==
    /\ IdleFallback
    /\ resolver_idx = 0
    /\ future_state = <<>>
    /\ future_result = <<>>
    /\ attempts = <<>>
    /\ query_resolver = <<>>
    /\ counted = <<>>
    /\ query_times = <<>>
    /\ dns_failures = 0
    /\ results = <<>>
    /\ failed_resolvers = {}
    /\ ranked = <<>>
    /\ dns_pc = "idle"

IdleRec ==
    /\ platform_system = "Linux"
    /\ benchmark = NoResult
    /\ recommendations = <<>>
    /\ returned = <<>>
    /\ rec_pc = "constructed"
    /\ earlier = <<>>
    /\ earlier_returned = <<>>

IdleBench ==
    /\ loop_running = FALSE
    /\ skip_throughput = FALSE
    /\ skip_dns = FALSE
    /\ bench_pc = "idle"
    /\ icmp_result = Unbound
    /\ throughput_result = Unbound
    /\ jitter_result = Unbound
    /\ bufferbloat_result = Unbound
    /\ dns_results = <<>>
    /\ bound = {}
    /\ invoked = <<>>
    /\ in_progress = {}
    /\ bench_failed = {}
    /\ full_benchmark = Unbound

IdleSchema ==
    /\ schema_kind = "none"
    /\ schema_args = Unbound
    /\ schema_obj = Unbound
    /\ schema_pc = "idle"
    /\ dumped = Unbound
    /\ rebuilt = Unbound

InitPing ==
    /\ IdleGrade
    /\ IdleRec
    /\ IdleDns
    /\ IdleBench
    /\ IdleSchema
    /\ IdlePct
    /\ config_count \in 1..MaxCount
    /\ samples = <<>>
    /\ failures = 0
    /\ icmp = NoResult
    /\ ping_pc = "probing"

\* a reply line of the ping output: its latency is appended
ParseReply(v) ==
    /\ ping_pc = "probing"
    /\ Len(samples) < MaxSamples
    /\ samples' = Append(samples, RInt(v))
    /\ UNCHANGED <<config_count, failures, icmp, ping_pc, pctVars, gradeVars, recVars, dnsVars, benchVars, schemaVars>>

\* a timed-out / unreachable line: one more failure
ParseFailure ==
    /\ ping_pc = "probing"
    /\ failures < MaxFailures
    /\ failures' = failures + 1
    /\ UNCHANGED <<config_count, samples, icmp, ping_pc, pctVars, gradeVars, recVars, dnsVars, benchVars, schemaVars>>

ComputeStatistics ==
    /\ ping_pc = "probing"
    /\ icmp' = compute_statistics(config_count, samples, failures)
    /\ ping_pc' = "done"
    /\ UNCHANGED <<config_count, samples, failures, pctVars, gradeVars, recVars, dnsVars, benchVars, schemaVars>>

NextPing ==
    \/ \E v \in 0..MaxLatency : ParseReply(v)
    \/ ParseFailure
    \/ ComputeStatistics

SpecPing == InitPing /\ [][NextPing]_vars

----------------------------------------------------------------------------
(* Properties of _compute_statistics, under SpecPing *)

Range(s) == {s[i] : i \in 1..Len(s)}

PingDone == ping_pc = "done"

\* C1: for a non-empty sample list and any failure count the returned
\* ICMPResult satisfies min <= p50 <= p90 <= p95 <= p99 <= max, and min and
\* max are exactly the smallest and the largest input sample.
C1_PercentileOrder ==
    (PingDone /\ samples # <<>>) =>
        /\ RLe(icmp.min, icmp.p50)
        /\ RLe(icmp.p50, icmp.p90)
        /\ RLe(icmp.p90, icmp.p95)
        /\ RLe(icmp.p95, icmp.p99)
        /\ RLe(icmp.p99, icmp.max)
        /\ icmp.min \in Range(samples)
        /\ icmp.max \in Range(samples)
        /\ \A x \in Range(samples) : RLe(icmp.min, x) /\ RLe(x, icmp.max)

\* C1 witness: unsorted input with a failure, percentiles strictly between
\* the extremes and interpolated between two samples.
C1_Witness ==
    /\ PingDone
    /\ Len(samples) >= 3
    /\ failures >= 1
    /\ samples # sorted(samples)
    /\ RLt(icmp.min, icmp.p50)
    /\ RLt(icmp.p50, icmp.p90)
    /\ RLt(icmp.p99, icmp.max)
    /\ icmp.p90 \notin Range(samples)

\* C2: with an empty sample list and N >= 1 failures the result is the
\* sentinel: packet_loss = 100, every latency statistic 0, no raw samples,
\* and samples = N, whatever the configured ping count is.
C2_ZeroSampleSentinel ==
    (PingDone /\ samples = <<>> /\ failures >= 1) =>
        /\ icmp.packet_loss = RInt(100)
        /\ icmp.p50 = RInt(0) /\ icmp.p90 = RInt(0)
        /\ icmp.p95 = RInt(0) /\ icmp.p99 = RInt(0)
        /\ icmp.min = RInt(0) /\ icmp.max = RInt(0)
        /\ icmp.mean = RInt(0) /\ icmp.stddev = Sqrt(RInt(0))
        /\ icmp.raw_samples = <<>>
        /\ icmp.samples = failures

\* C3: for S >= 1 successes and F >= 0 failures, samples = S + F and
\* packet_loss = F / (S + F) * 100; the configured count plays no part.
C3_LossFromAttempts ==
    (PingDone /\ samples # <<>>) =>
        /\ icmp.samples = Len(samples) + failures
        /\ icmp.packet_loss = Rat(failures * 100, Len(samples) + failures)

\* C3 witness: successes and failures whose sum differs from the count,
\* with a loss that is neither 0 nor 100.
C3_Witness ==
    /\ PingDone
    /\ Len(samples) = 3
    /\ failures = 1
    /\ config_count # Len(samples) + failures
    /\ icmp.samples = 4
    /\ icmp.packet_loss = RInt(25)

----------------------------------------------------------------------------
(* ping_distribution.py: a whole ping output, with more replies than RawCap *)

\* the latencies of n reply lines, in ms: growing, falling, and alternating
\* between the low and the high end
Ascending(n) == [i \in 1..n |-> RInt(i)]
Descending(n) == [i \in 1..n |-> RInt(n + 1 - i)]
Zigzag(n) ==
    [i \in 1..n |-> RInt(IF i % 2 = 1 THEN (i + 1) \div 2 ELSE n + 1 - (i \div 2))]

\* numbers of reply lines: few, and around the raw_samples cap
ReplyCounts == {1, 2, RawCap - 1, RawCap, RawCap + 1, RawCap + MaxSamples}

PingOutputs ==
    UNION {{Ascending(n), Descending(n), Zigzag(n)} : n \in ReplyCounts}

\* the parsing loop over all lines of the output: replies are appended in
\* line order, failure lines are counted
ParseOutput(replies, fails) ==
    /\ ping_pc = "probing"
    /\ samples = <<>>
    /\ failures = 0
    /\ samples' = replies
    /\ failures' = fails
    /\ UNCHANGED <<config_count, icmp, ping_pc, pctVars, gradeVars, recVars,
                   dnsVars, benchVars, schemaVars>>

NextPingOutput ==
    \/ \E replies \in PingOutputs, fails \in 0..MaxFailures :
          ParseOutput(replies, fails)
    \/ ComputeStatistics

SpecPingOutput == InitPing /\ [][NextPingOutput]_vars

\* the specified interpolation: k = (n-1)*p, f = floor(k), c = min(f+1, n-1),
\* data[f] + (k-f)*(data[c]-data[f]), with 0-based indices
Interpolated(data, p) ==
    LET n == Len(data)
        k == RMul(RInt(n - 1), p)
        f == RTrunc(k)
        c == IF f + 1 < n - 1 THEN f + 1 ELSE n - 1
    IN  RAdd(data[f + 1],
             RMul(RSub(k, RInt(f)), RSub(data[c + 1], data[f + 1])))

\* C24: raw_samples is exactly the first min(100, n) successful samples in
\* their input order, never more than 100 entries, while the percentiles,
\* min, max and mean are those of all n samples.
C24_RawSamplesPrefix ==
    PingDone =>
        LET n == Len(samples)
            kept == IF n < 100 THEN n ELSE 100
            all == sorted(samples)
        IN  /\ icmp.raw_samples = [i \in 1..kept |-> samples[i]]
            /\ Len(icmp.raw_samples) <= 100
            /\ (n >= 1) =>
                  /\ icmp.min \in Range(samples)
                  /\ \A i \in 1..n : RLe(icmp.min, samples[i])
                  /\ icmp.max \in Range(samples)
                  /\ \A i \in 1..n : RLe(samples[i], icmp.max)
                  /\ RMul(icmp.mean, RInt(n)) = RSum(samples)
                  /\ icmp.p50 = Interpolated(all, Rat(50, 100))
                  /\ icmp.p90 = Interpolated(all, Rat(90, 100))
                  /\ icmp.p95 = Interpolated(all, Rat(95, 100))
                  /\ icmp.p99 = Interpolated(all, Rat(99, 100))

\* C24 witness: more than 100 replies, not in sorted order, whose smallest
\* latency and median lie outside what the first 100 would give.
C24_Witness ==
    /\ PingDone
    /\ Len(samples) > 100
    /\ samples # sorted(samples)
    /\ Len(icmp.raw_samples) = 100
    /\ icmp.raw_samples[100] = samples[100]
    /\ \A i \in 1..100 : RLt(icmp.min, icmp.raw_samples[i])
    /\ icmp.p50 # Interpolated(sorted(icmp.raw_samples), Rat(50, 100))

----------------------------------------------------------------------------
(* ping_distribution.py: the percentile helper on its own *)

\* sorted non-empty data of up to MaxSamples latencies 0..MaxLatency ms
PercentileData ==
    {[i \in 1..Len(t) |-> RInt(t[i])] :
        t \in {u \in UNION {[1..n -> 0..MaxLatency] : n \in 1..MaxSamples} :
                   \A i \in 1..(Len(u) - 1) : u[i] <= u[i + 1]}}

\* p: both ends of [0, 1], the four percentiles _compute_statistics asks for
\* and a quartile
PercentileRanks ==
    {RInt(0), Rat(25, 100), Rat(50, 100), Rat(90, 100), Rat(95, 100),
     Rat(99, 100), RInt(1)}

InitPercentile ==
    /\ IdleGrade
    /\ IdleRec
    /\ IdleDns
    /\ IdleBench
    /\ IdleSchema
    /\ config_count = 1
    /\ samples = <<>>
    /\ failures = 0
    /\ icmp = NoResult
    /\ ping_pc = "idle"
    /\ pct_data \in PercentileData
    /\ pct_p = RInt(0)
    /\ pct_value = RInt(0)
    /\ pct_prev_p = RInt(0)
    /\ pct_prev_value = RInt(0)
    /\ pct_calls = 0

\* one call percentile(sorted_samples, p)
Percentile(p) ==
    /\ pct_prev_p' = pct_p
    /\ pct_prev_value' = pct_value
    /\ pct_p' = p
    /\ pct_value' = percentile(pct_data, p)
    /\ pct_calls' = IF pct_calls < 2 THEN pct_calls + 1 ELSE 2
    /\ UNCHANGED <<pct_data, config_count, samples, failures, icmp, ping_pc>>
    /\ UNCHANGED <<gradeVars, recVars, dnsVars, benchVars, schemaVars>>

NextPercentile == \E p \in PercentileRanks : Percentile(p)

SpecPercentile == InitPercentile /\ [][NextPercentile]_vars

----------------------------------------------------------------------------
(* Properties of percentile, under SpecPercentile *)

\* C23: for sorted non-empty data and p in [0, 1], percentile(data, p) is the
\* specified interpolation data[f] + (k-f)*(data[c]-data[f]) with the index c
\* clamped to the last one; percentile(data, 0) is the minimum,
\* percentile(data, 1) the maximum, and of two calls on the same data the
\* one with the larger p never returns the smaller value.
C23_PercentileInterpolation ==
    /\ (pct_calls >= 1) =>
          /\ pct_value = Interpolated(pct_data, pct_p)
          /\ (pct_p = RInt(0)) => pct_value = pct_data[1]
          /\ (pct_p = RInt(1)) => pct_value = pct_data[Len(pct_data)]
    /\ (pct_calls >= 2 /\ RLe(pct_prev_p, pct_p)) =>
          RLe(pct_prev_value, pct_value)

\* C23 witness: two calls with growing p on data of three or more distinct
\* values, the later one interpolated strictly between two neighbours and
\* strictly above the earlier one.
C23_Witness ==
    /\ pct_calls = 2
    /\ Len(pct_data) >= 3
    /\ RLt(pct_prev_p, pct_p)
    /\ RLt(pct_prev_value, pct_value)
    /\ pct_value \notin Range(pct_data)
    /\ RLt(pct_data[1], pct_data[Len(pct_data)])

----------------------------------------------------------------------------
(* json_schema.py: calculate_bufferbloat_grade *)

GradeAPlusBelow == 10
GradeABelow == 30
GradeBBelow == 100
GradeCBelow == 200
GradeDBelow == 400

calculate_bufferbloat_grade_inclusive(x) ==
    IF RLe(x, RInt(GradeAPlusBelow)) THEN "A+"
    ELSE IF RLe(x, RInt(GradeABelow)) THEN "A"
    ELSE IF RLe(x, RInt(GradeBBelow)) THEN "B"
    ELSE IF RLe(x, RInt(GradeCBelow)) THEN "C"
    ELSE IF RLe(x, RInt(GradeDBelow)) THEN "D"
    ELSE "F"

calculate_bufferbloat_grade(x) ==
    IF RLt(x, RInt(GradeAPlusBelow)) THEN "A+"
    ELSE IF RLt(x, RInt(GradeABelow)) THEN "A"
    ELSE IF RLt(x, RInt(GradeBBelow)) THEN "B"
    ELSE IF RLt(x, RInt(GradeCBelow)) THEN "C"
    ELSE IF RLt(x, RInt(GradeDBelow)) THEN "D"
    ELSE "F"

GradeThresholds ==
    {GradeAPlusBelow, GradeABelow, GradeBBelow, GradeCBelow, GradeDBelow}

\* the non-negative latency increases the function is applied to, in ms
GradeInputs ==
    {Rat(n, 10) : n \in {m \in 0..(10 * MaxIncreaseMs) :
        \/ m % 100 = 0
        \/ \E t \in GradeThresholds : Abs(m - 10 * t) <= GradeSpread}}

InitGrade == IdlePing /\ IdleGrade /\ IdleRec /\ IdleDns /\ IdleBench /\ IdleSchema

CalculateGrade(x) ==
    /\ prev_increase_ms' = latency_increase_ms
    /\ prev_grade' = grade
    /\ latency_increase_ms' = x
    /\ grade' = calculate_bufferbloat_grade(x)
    /\ UNCHANGED <<pingVars, recVars, dnsVars, benchVars, schemaVars>>

NextGrade == \E x \in GradeInputs : CalculateGrade(x)

SpecGrade == InitGrade /\ [][NextGrade]_vars

----------------------------------------------------------------------------
(* Properties of calculate_bufferbloat_grade, under SpecGrade *)

\* position of a grade from best (0) to worst (5)
GradeRank(g) ==
    CASE g = "A+" -> 0 [] g = "A" -> 1 [] g = "B" -> 2
      [] g = "C" -> 3 [] g = "D" -> 4 [] g = "F" -> 5

\* x in tenths of a millisecond, for x a multiple of 0.1 ms
Tenths(x) == (10 * x[1]) \div x[2]

\* C4: the grade of a non-negative latency increase x is A+ for x < 10, A for
\* 10 <= x < 30, B for 30 <= x < 100, C for 100 <= x < 200, D for
\* 200 <= x < 400 and F for x >= 400 (each boundary value takes the worse
\* grade), and of two calls the one with the larger x never gets the better
\* grade.
C4_GradeBuckets ==
    (grade # NoResult) =>
        LET t == Tenths(latency_increase_ms) IN
        /\ grade \in {"A+", "A", "B", "C", "D", "F"}
        /\ (grade = "A+") <=> (t < 100)
        /\ (grade = "A") <=> (100 <= t /\ t < 300)
        /\ (grade = "B") <=> (300 <= t /\ t < 1000)
        /\ (grade = "C") <=> (1000 <= t /\ t < 2000)
        /\ (grade = "D") <=> (2000 <= t /\ t < 4000)
        /\ (grade = "F") <=> (4000 <= t)
        /\ (prev_grade # NoResult /\ RLe(prev_increase_ms, latency_increase_ms))
               => GradeRank(prev_grade) <= GradeRank(grade)

\* C4 witness: a call at the boundary 10.0 (grade A) right after a call at
\* 9.9 (grade A+).
C4_Witness ==
    /\ prev_grade = "A+"
    /\ grade = "A"
    /\ prev_increase_ms = Rat(99, 10)
    /\ latency_increase_ms = RInt(10)

----------------------------------------------------------------------------
(* recommendation.py: RecommendationEngine *)

\* Recommendation; description, estimated_impact, commands and
\* rollback_commands are display text no rule reads and are left out.
Recommendation(id, title, confidence, category, requires_admin) ==
    [id |-> id, title |-> title, confidence |-> confidence,
     category |-> category, requires_admin |-> requires_admin,
     reversible |-> TRUE, risk_level |-> "low"]

analyze_bufferbloat_inclusive(recs, b) ==
    LET bufferbloat == b.bufferbloat IN
    IF RLe(RInt(100), bufferbloat.latency_increase_ms)
    THEN Append(recs, Recommendation("sqm_openwrt",
            "Enable Smart Queue Management (SQM) on Router",
            IF RLe(RInt(200), bufferbloat.latency_increase_ms)
            THEN "high" ELSE "medium",
            "Router", FALSE))
    ELSE recs

analyze_bufferbloat(recs, b) ==
    LET bufferbloat == b.bufferbloat IN
    IF RGt(bufferbloat.latency_increase_ms, RInt(100))
    THEN Append(recs, Recommendation("sqm_openwrt",
            "Enable Smart Queue Management (SQM) on Router",
            IF RGt(bufferbloat.latency_increase_ms, RInt(200))
            THEN "high" ELSE "medium",
            "Router", FALSE))
    ELSE recs

PacketLossRec(loss) ==
    Recommendation("investigate_packet_loss", "Investigate Packet Loss",
        IF RGt(loss, RInt(5)) THEN "high" ELSE "medium", "System", FALSE)

analyze_packet_loss_udp(recs, b) ==
    LET icmp_loss == b.icmp.packet_loss
        udp_loss == b.jitter.packet_loss
        r1 == IF RGt(icmp_loss, RInt(1))
              THEN Append(recs, PacketLossRec(icmp_loss)) ELSE recs
    IN  IF RGt(udp_loss, RInt(1)) THEN Append(r1, PacketLossRec(udp_loss)) ELSE r1

analyze_packet_loss(recs, b) ==
    LET icmp_loss == b.icmp.packet_loss
        udp_loss == b.jitter.packet_loss
    IN  IF RGt(icmp_loss, RInt(1))
        THEN Append(recs, PacketLossRec(icmp_loss))
        ELSE recs

\* min(benchmark.dns, key=lambda d: d.median_ms): the first minimal element
RECURSIVE MinByMedian(_)
MinByMedian(dns) ==
    IF Len(dns) = 1 THEN dns[1]
    ELSE LET m == MinByMedian(SubSeq(dns, 1, Len(dns) - 1))
         IN  IF RLt(dns[Len(dns)].median_ms, m.median_ms)
             THEN dns[Len(dns)] ELSE m

analyze_dns_single(recs, b) ==
    IF b.dns = <<>> THEN recs
    ELSE LET fastest == MinByMedian(b.dns) IN
         IF RLt(fastest.median_ms, RInt(20)) /\ RGt(fastest.success_rate, RInt(95))
         THEN Append(recs, Recommendation("dns_cloudflare_google",
                 <<"Use Faster DNS Resolver", fastest.resolver>>,
                 "medium", "DNS", TRUE))
         ELSE recs

analyze_dns(recs, b) ==
    IF b.dns = <<>> \/ Len(b.dns) < 2 THEN recs
    ELSE LET fastest == MinByMedian(b.dns) IN
         IF RLt(fastest.median_ms, RInt(20)) /\ RGt(fastest.success_rate, RInt(95))
         THEN Append(recs, Recommendation("dns_cloudflare_google",
                 <<"Use Faster DNS Resolver", fastest.resolver>>,
                 "medium", "DNS", TRUE))
         ELSE recs

analyze_jitter_inclusive(recs, b) ==
    LET jitter == b.jitter IN
    IF RLe(RInt(10), jitter.mean_jitter_ms)
    THEN Append(recs, Recommendation("reduce_jitter", "High Jitter Detected",
            "medium", "System", FALSE))
    ELSE recs

analyze_jitter(recs, b) ==
    LET jitter == b.jitter IN
    IF RGt(jitter.mean_jitter_ms, RInt(10))
    THEN Append(recs, Recommendation("reduce_jitter", "High Jitter Detected",
            "medium", "System", FALSE))
    ELSE recs

analyze_nic_settings_any_platform(recs, b, system) ==
    Append(recs, Recommendation("nic_rss_enable",
            "Enable Receive Side Scaling (RSS) on Network Adapter",
            "medium", "NIC", TRUE))

analyze_nic_settings(recs, b, system) ==
    IF system # "Windows" THEN recs
    ELSE Append(recs, Recommendation("nic_rss_enable",
            "Enable Receive Side Scaling (RSS) on Network Adapter",
            "medium", "NIC", TRUE))

generate_jitter_before_loss(b, system) ==
    LET r0 == <<>>
        r1 == analyze_bufferbloat(r0, b)
        r2 == analyze_jitter(r1, b)
        r3 == analyze_packet_loss(r2, b)
        r4 == analyze_dns(r3, b)
    IN  analyze_nic_settings(r4, b, system)

\* generate: self.recommendations after the five rules ran in order
generate(b, system) ==
    LET r0 == <<>>
        r1 == analyze_bufferbloat(r0, b)
        r2 == analyze_packet_loss(r1, b)
        r3 == analyze_dns(r2, b)
        r4 == analyze_jitter(r3, b)
    IN  analyze_nic_settings(r4, b, system)

DNSResult(resolver, median_ms, p95_ms, success_rate, n) ==
    [resolver |-> resolver, median_ms |-> median_ms, p95_ms |-> p95_ms,
     success_rate |-> success_rate, samples |-> n]

\* The BenchmarkResults handed to generate: each field the rules read takes
\* values below, at and above the rule's thresholds.
IncreaseInputs ==
    {RInt(100), Rat(1001, 10), RInt(200), Rat(2001, 10), RInt(220)}

IcmpLossInputs ==
    {RInt(1), Rat(11, 10), RInt(5), Rat(51, 10), Rat(85, 10)}

\* JitterResult: <<mean_jitter_ms, packet_loss>>
JitterInputs ==
    {<<RInt(0), RInt(0)>>, <<RInt(10), RInt(4)>>, <<Rat(101, 10), RInt(100)>>,
     <<RInt(15), RInt(4)>>}

DnsInputs ==
    {<<>>,
     <<DNSResult("1.1.1.1", RInt(2), RInt(3), RInt(100), 20)>>,
     <<DNSResult("1.1.1.1", Rat(85, 10), RInt(12), Rat(995, 10), 20),
       DNSResult("8.8.8.8", Rat(152, 10), RInt(22), RInt(98), 20)>>,
     <<DNSResult("1.1.1.1", RInt(20), RInt(30), RInt(100), 20),
       DNSResult("8.8.8.8", RInt(25), RInt(40), RInt(100), 20)>>,
     <<DNSResult("1.1.1.1", RInt(8), RInt(12), RInt(95), 20),
       DNSResult("8.8.8.8", RInt(8), RInt(9), RInt(100), 20)>>,
     <<DNSResult("8.8.8.8", RInt(8), RInt(15), RInt(100), 20),
       DNSResult("1.1.1.1", RInt(0), RInt(0), RInt(0), 20)>>}

BenchmarkInputs ==
    {[bufferbloat |-> [latency_increase_ms |-> inc],
      icmp |-> [packet_loss |-> loss],
      jitter |-> [mean_jitter_ms |-> j[1], packet_loss |-> j[2]],
      dns |-> d] :
        inc \in IncreaseInputs, loss \in IcmpLossInputs,
        j \in JitterInputs, d \in DnsInputs}

InitRec ==
    /\ IdlePing
    /\ IdleGrade
    /\ IdleDns
    /\ IdleBench
    /\ IdleSchema
    /\ platform_system \in {"Windows", "Linux"}
    /\ benchmark = NoResult
    /\ recommendations = <<>>
    /\ returned = <<>>
    /\ rec_pc = "constructed"
    /\ earlier = <<>>
    /\ earlier_returned = <<>>

\* recommendation.py line 31 written as self.recommendations.clear(): the
\* list object handed out earlier is emptied and filled again
reset_recommendations_in_place(old) ==
    [current |-> <<>>, earlier |-> <<>>, same_object |-> TRUE]

\* recommendation.py line 31, self.recommendations = []: the attribute is
\* bound to a new empty list; the list object it was bound to, which the
\* previous call returned, keeps its elements and is a different object.
reset_recommendations(old) ==
    [current |-> <<>>, earlier |-> old, same_object |-> FALSE]

\* One generate call on the engine.  hold: the caller still holds the list
\* the previous call returned.
Call(b, hold) ==
    LET lists == reset_recommendations(recommendations)
        now == lists.current \o generate(b, platform_system)
    IN  /\ benchmark' = b
        /\ recommendations' = now
        /\ returned' = now
        /\ rec_pc' = "returned"
        /\ earlier' = IF ~hold THEN <<>>
                      ELSE IF lists.same_object THEN now ELSE lists.earlier
        /\ earlier_returned' = IF hold THEN returned ELSE <<>>
        /\ UNCHANGED <<platform_system, pingVars, gradeVars, dnsVars, benchVars, schemaVars>>

Generate(b) == Call(b, FALSE)

NextRec == \E b \in BenchmarkInputs : Generate(b)

SpecRec == InitRec /\ [][NextRec]_vars

\* BenchmarkResults for sequences of calls on one engine: each rule fires for
\* some and stays silent for others
CallInputs ==
    {b \in BenchmarkInputs :
        /\ b.bufferbloat.latency_increase_ms \in {RInt(100), RInt(220)}
        /\ b.icmp.packet_loss \in {RInt(1), Rat(85, 10)}
        /\ b.jitter.mean_jitter_ms \in {RInt(0), RInt(15)}
        /\ Len(b.dns) \in {0, 2}
        /\ Len(b.dns) = 2 => b.dns[1].median_ms = Rat(85, 10)}

GenerateHolding(b) == Call(b, TRUE)

NextRecCalls == \E b \in CallInputs : GenerateHolding(b)

SpecRecCalls == InitRec /\ [][NextRecCalls]_vars

----------------------------------------------------------------------------
(* Properties of RecommendationEngine.generate, under SpecRec *)

Ids(recs) == [i \in 1..Len(recs) |-> recs[i].id]

WithId(recs, id) == {i \in 1..Len(recs) : recs[i].id = id}

IfSeq(cond, x) == IF cond THEN <<x>> ELSE <<>>

\* the triggers of the five rules, read off the BenchmarkResult alone
SqmTrigger == RGt(benchmark.bufferbloat.latency_increase_ms, RInt(100))
LossTrigger == RGt(benchmark.icmp.packet_loss, RInt(1))
JitterTrigger == RGt(benchmark.jitter.mean_jitter_ms, RInt(10))
NicTrigger == platform_system = "Windows"
DnsTrigger ==
    /\ Len(benchmark.dns) >= 2
    /\ \E i \in 1..Len(benchmark.dns) :
        /\ \A j \in 1..Len(benchmark.dns) :
              /\ RLe(benchmark.dns[i].median_ms, benchmark.dns[j].median_ms)
              /\ j < i => RLt(benchmark.dns[i].median_ms, benchmark.dns[j].median_ms)
        /\ RLt(benchmark.dns[i].median_ms, RInt(20))
        /\ RGt(benchmark.dns[i].success_rate, RInt(95))

\* C8: generate returns exactly the recommendations of the rules whose own
\* trigger holds, in the order bufferbloat/SQM, packet loss, DNS, jitter, NIC,
\* at most one per rule and with pairwise distinct ids; with
\* latency_increase_ms = 220, icmp.packet_loss = 8.5 and mean jitter = 15 the
\* list starts with SQM (confidence high), then the packet-loss
\* investigation, and the jitter entry follows.
C8_RuleOrder ==
    (rec_pc = "returned") =>
        /\ returned = recommendations
        /\ Ids(returned) =
              IfSeq(SqmTrigger, "sqm_openwrt")
              \o IfSeq(LossTrigger, "investigate_packet_loss")
              \o IfSeq(DnsTrigger, "dns_cloudflare_google")
              \o IfSeq(JitterTrigger, "reduce_jitter")
              \o IfSeq(NicTrigger, "nic_rss_enable")
        /\ \A i, j \in 1..Len(returned) :
              returned[i].id = returned[j].id => i = j
        /\ ( /\ benchmark.bufferbloat.latency_increase_ms = RInt(220)
             /\ benchmark.icmp.packet_loss = Rat(85, 10)
             /\ benchmark.jitter.mean_jitter_ms = RInt(15) )
           => /\ returned[1].id = "sqm_openwrt"
              /\ returned[1].confidence = "high"
              /\ returned[2].id = "investigate_packet_loss"
              /\ \E i \in 3..Len(returned) : returned[i].id = "reduce_jitter"

\* C8 witness: the 220 / 8.5 / 15 example with no DNS results on a
\* non-Windows host yields exactly SQM, packet loss, jitter.
C8_Witness ==
    /\ rec_pc = "returned"
    /\ platform_system = "Linux"
    /\ benchmark.bufferbloat.latency_increase_ms = RInt(220)
    /\ benchmark.icmp.packet_loss = Rat(85, 10)
    /\ benchmark.jitter.mean_jitter_ms = RInt(15)
    /\ benchmark.dns = <<>>
    /\ Ids(returned) = <<"sqm_openwrt", "investigate_packet_loss", "reduce_jitter">>
    /\ returned[1].confidence = "high"

C10_PacketLossRule ==
    (rec_pc = "returned") =>
        LET t == Tenths(benchmark.icmp.packet_loss)
            loss == WithId(returned, "investigate_packet_loss")
        IN  /\ (loss # {}) <=> (t > 10)
            /\ Cardinality(loss) <= 1
            /\ \A i \in loss :
                 returned[i].confidence = (IF t > 50 THEN "high" ELSE "medium")

\* C10 witness: ICMP loss exactly 5.0 together with 100% UDP loss gives one
\* packet-loss entry, confidence medium.
C10_Witness ==
    /\ rec_pc = "returned"
    /\ benchmark.icmp.packet_loss = RInt(5)
    /\ benchmark.jitter.packet_loss = RInt(100)
    /\ Cardinality(WithId(returned, "investigate_packet_loss")) = 1
    /\ \E i \in 1..Len(returned) :
          returned[i].id = "investigate_packet_loss"
          /\ returned[i].confidence = "medium"

\* the positions of benchmark.dns that min(..., key=median_ms) can select: a
\* minimal median_ms with no equal one before it
Fastest ==
    {i \in 1..Len(benchmark.dns) :
        \A j \in 1..Len(benchmark.dns) :
            /\ RLe(benchmark.dns[i].median_ms, benchmark.dns[j].median_ms)
            /\ j < i => RLt(benchmark.dns[i].median_ms, benchmark.dns[j].median_ms)}

\* C11: the DNS recommendation is emitted iff the BenchmarkResult has at
\* least 2 DNS results and the result with the minimum median_ms (the first
\* of them when several share the minimum) has median_ms < 20 and
\* success_rate > 95; it names that resolver in its title, has confidence
\* medium and requires admin; with 0 or 1 DNS result it is never emitted.
C11_DnsRule ==
    (rec_pc = "returned") =>
        LET dnsrec == WithId(returned, "dns_cloudflare_google")
        IN  /\ (dnsrec # {}) <=>
                  /\ Len(benchmark.dns) >= 2
                  /\ \E i \in Fastest :
                        /\ Tenths(benchmark.dns[i].median_ms) < 200
                        /\ Tenths(benchmark.dns[i].success_rate) > 950
            /\ Len(benchmark.dns) < 2 => dnsrec = {}
            /\ \A k \in dnsrec :
                 /\ \E i \in Fastest :
                       returned[k].title =
                           <<"Use Faster DNS Resolver", benchmark.dns[i].resolver>>
                 /\ returned[k].confidence = "medium"
                 /\ returned[k].requires_admin = TRUE
                 /\ returned[k].category = "DNS"

\* C11 witness: a single very fast DNS result (median 2 ms, 100% success)
\* was analysed and no DNS recommendation came out.
C11_Witness ==
    /\ rec_pc = "returned"
    /\ Len(benchmark.dns) = 1
    /\ benchmark.dns[1].median_ms = RInt(2)
    /\ benchmark.dns[1].success_rate = RInt(100)
    /\ WithId(returned, "dns_cloudflare_google") = {}

\* C12: the jitter recommendation is emitted iff jitter.mean_jitter_ms > 10
\* (exactly 10 does not fire), always with confidence medium; the zero-valued
\* placeholder JitterResult never triggers it.
C12_JitterRule ==
    (rec_pc = "returned") =>
        LET jit == WithId(returned, "reduce_jitter")
        IN  /\ (jit # {}) <=> (Tenths(benchmark.jitter.mean_jitter_ms) > 100)
            /\ \A k \in jit : returned[k].confidence = "medium"
            /\ benchmark.jitter = [mean_jitter_ms |-> RInt(0), packet_loss |-> RInt(0)]
                  => jit = {}

\* C12 witness: a mean jitter of exactly 10 ms was analysed and produced no
\* jitter recommendation.
C12_Witness ==
    /\ rec_pc = "returned"
    /\ benchmark.jitter.mean_jitter_ms = RInt(10)
    /\ WithId(returned, "reduce_jitter") = {}

\* C13: whatever the BenchmarkResult, the NIC/RSS recommendation is absent
\* on a non-Windows platform, and on Windows it is present exactly once, as
\* the last element of the list, with confidence medium, category NIC and
\* requiring admin.
C13_NicRule ==
    (rec_pc = "returned") =>
        LET nic == WithId(returned, "nic_rss_enable")
        IN  /\ platform_system # "Windows" => nic = {}
            /\ platform_system = "Windows" =>
                  /\ nic = {Len(returned)}
                  /\ Len(returned) >= 1
                  /\ returned[Len(returned)].confidence = "medium"
                  /\ returned[Len(returned)].requires_admin = TRUE
                  /\ returned[Len(returned)].category = "NIC"

\* C13 witness: on Windows a BenchmarkResult that triggers the SQM, packet
\* loss, DNS and jitter rules gives five entries, the NIC one last.
C13_Witness ==
    /\ rec_pc = "returned"
    /\ platform_system = "Windows"
    /\ Len(returned) = 5
    /\ returned[5].id = "nic_rss_enable"

\* C14: under any sequence of generate calls on one engine, the list each
\* call returns is the list a fresh engine returns for that call's
\* BenchmarkResult (nothing from earlier calls is in it), and the list the
\* previous call returned still has exactly the elements it was returned
\* with.
C14_NoStateAcrossCalls ==
    (rec_pc = "returned") =>
        /\ returned = generate(benchmark, platform_system)
        /\ earlier = earlier_returned

\* C14 witness: a call that returned three or more recommendations was
\* followed, on the same engine, by a call that returned fewer, and the
\* caller still holds the earlier list.
C14_Witness ==
    /\ rec_pc = "returned"
    /\ Len(earlier_returned) >= 3
    /\ Len(returned) < Len(earlier_returned)
    /\ earlier = earlier_returned

\* a DNSResult of a resolver none of whose queries succeeded
TotallyFailed(r) == r.median_ms = RInt(0) /\ r.success_rate = RInt(0)

\* a DNSResult with 0 < median_ms < 20 and success_rate > 95
Healthy(r) ==
    /\ RGt(r.median_ms, RInt(0))
    /\ RLt(r.median_ms, RInt(20))
    /\ RGt(r.success_rate, RInt(95))

\* C29: when the DNS list holds a totally failed resolver (median_ms = 0,
\* success_rate = 0) together with a healthy one (0 < median_ms < 20,
\* success_rate > 95), the DNS rule does not select the failed resolver as
\* the fastest: the DNS recommendation is emitted and names a healthy
\* resolver.
C29_FailedResolverNotFastest ==
    (/\ rec_pc = "returned"
     /\ \E i \in 1..Len(benchmark.dns) : TotallyFailed(benchmark.dns[i])
     /\ \E j \in 1..Len(benchmark.dns) : Healthy(benchmark.dns[j])) =>
        \E k \in WithId(returned, "dns_cloudflare_google") :
            \E j \in 1..Len(benchmark.dns) :
                /\ Healthy(benchmark.dns[j])
                /\ returned[k].title =
                      <<"Use Faster DNS Resolver", benchmark.dns[j].resolver>>

----------------------------------------------------------------------------
(* dns_bench.py: DNSBenchmark *)

\* self.resolvers: the resolvers benchmark_all goes through, in order
Resolvers == <<"X", "Y", "Z">>

\* self.domains, by position
Domains == 1..NumDomains

\* what _query_domain returns: the query time in ms, or -1 on failure
QueryFailed == RInt(-1)
QueryOutcomes == {QueryFailed, RInt(8), RInt(15)}

\* round(x, ndigits) for x >= 0: to the nearest multiple of 10^-ndigits,
\* an exact tie going to the even neighbour
RRound(x, ndigits) ==
    LET scale == 10 ^ ndigits
        y == RMul(x, RInt(scale))
        fl == RTrunc(y)
        twice == RSub(RMul(y, RInt(2)), RInt(2 * fl))
    IN  IF RLt(twice, RInt(1)) THEN Rat(fl, scale)
        ELSE IF RGt(twice, RInt(1)) THEN Rat(fl + 1, scale)
        ELSE IF fl % 2 = 0 THEN Rat(fl, scale) ELSE Rat(fl + 1, scale)

\* statistics.median of sorted data
median(s) ==
    LET n == Len(s) IN
    IF n % 2 = 1 THEN s[(n + 1) \div 2]
    ELSE RDiv(RAdd(s[n \div 2], s[n \div 2 + 1]), RInt(2))

\* sorted_times[int(len(sorted_times) * 0.95)] if len(sorted_times) > 1 else median
p95_of(s) ==
    IF Len(s) > 1
    THEN s[RTrunc(RMul(RInt(Len(s)), Rat(95, 100))) + 1]
    ELSE median(s)

\* round((len(query_times) / len(self.domains)) * 100, 1)
success_rate_of(times, n) ==
    RRound(RMul(RDiv(RInt(Len(times)), RInt(n)), RInt(100)), 1)

all_failed_result_omitting_samples(resolver, n) ==
    DNSResult(resolver, RInt(0), RInt(0), RInt(0), 0)

\* the DNSResult of a resolver with no successful query
all_failed_result(resolver, n) ==
    DNSResult(resolver, RInt(0), RInt(0), RInt(0), n)

\* the statistics taken from the latencies as they were appended
aggregate_in_completion_order(resolver, times, n) ==
    IF times = <<>> THEN all_failed_result(resolver, n)
    ELSE DNSResult(resolver, RRound(median(times), 2), RRound(p95_of(times), 2),
                   success_rate_of(times, n), n)

\* benchmark_resolver after the pool: the DNSResult of the collected outcomes
aggregate(resolver, times, n) ==
    IF times = <<>> THEN all_failed_result(resolver, n)
    ELSE LET sorted_times == sorted(times) IN
         DNSResult(resolver,
                   RRound(median(sorted_times), 2),
                   RRound(p95_of(sorted_times), 2),
                   success_rate_of(times, n),
                   n)

\* float('inf'): above every finite value under RLt
Inf == <<1, 0>>

sort_key_plain(r) == r.median_ms

\* key=lambda r: r.median_ms if r.median_ms > 0 else float('inf')
sort_key(r) == IF RGt(r.median_ms, RInt(0)) THEN r.median_ms ELSE Inf

RECURSIVE InsertByKey(_, _)
InsertByKey(x, s) ==
    IF s = <<>> THEN <<x>>
    ELSE IF RLt(sort_key(x), sort_key(Head(s))) THEN <<x>> \o s
    ELSE <<Head(s)>> \o InsertByKey(x, Tail(s))

\* results.sort(key=...): ascending and stable
RECURSIVE sort_results(_)
sort_results(s) ==
    IF s = <<>> THEN <<>>
    ELSE InsertByKey(s[Len(s)], sort_results(SubSeq(s, 1, Len(s) - 1)))

\* if result > 0: query_times.append(result)
collect_time(times, result) ==
    IF RGt(result, RInt(0)) THEN Append(times, result) ELSE times

collect_failure_dropped(fails, result) == fails

\* else: failures += 1
collect_failure(fails, result) ==
    IF RGt(result, RInt(0)) THEN fails ELSE fails + 1

Running == {d \in Domains : future_state[d] = "running"}
Pending == {d \in Domains : future_state[d] = "pending"}

InitDns ==
    /\ IdlePing
    /\ IdleGrade
    /\ IdleRec
    /\ IdleBench
    /\ IdleSchema
    /\ IdleFallback
    /\ resolver_idx = 1
    /\ future_state = [d \in Domains |-> "none"]
    /\ future_result = <<>>
    /\ attempts = [d \in Domains |-> 0]
    /\ query_resolver = [d \in Domains |-> 0]
    /\ counted = [d \in Domains |-> 0]
    /\ query_times = <<>>
    /\ dns_failures = 0
    /\ results = <<>>
    /\ failed_resolvers = {}
    /\ ranked = <<>>
    /\ dns_pc = "start"

\* benchmark_resolver is entered: empty accumulators, one task per domain
SubmitQueries ==
    /\ dns_pc = "start"
    /\ query_times' = <<>>
    /\ dns_failures' = 0
    /\ future_state' = [d \in Domains |-> "pending"]
    /\ future_result' = <<>>
    /\ attempts' = [d \in Domains |-> 0]
    /\ counted' = [d \in Domains |-> 0]
    /\ dns_pc' = "pool"
    /\ UNCHANGED <<resolver_idx, query_resolver, results, failed_resolvers, ranked>>
    /\ UNCHANGED <<pingVars, gradeVars, recVars, benchVars, schemaVars, fallbackVars>>

worker_free_unbounded(running, max_workers) == TRUE

\* ThreadPoolExecutor(max_workers): a queued task starts only on one of the
\* max_workers threads that is not running a task
worker_free(running, max_workers) == Cardinality(running) < max_workers

\* a free pool thread takes the oldest queued task
WorkerStart(d) ==
    /\ dns_pc = "pool"
    /\ future_state[d] = "pending"
    /\ \A e \in Pending : d <= e
    /\ worker_free(Running, MaxWorkers)
    /\ future_state' = [future_state EXCEPT ![d] = "running"]
    /\ attempts' = [attempts EXCEPT ![d] = @ + 1]
    /\ query_resolver' = [query_resolver EXCEPT ![d] = resolver_idx]
    /\ UNCHANGED <<resolver_idx, future_result, counted, query_times,
                   dns_failures, results, failed_resolvers, ranked, dns_pc>>
    /\ UNCHANGED <<pingVars, gradeVars, recVars, benchVars, schemaVars, fallbackVars>>

\* _query_domain returns r in the pool thread
QueryReturn(d, r) ==
    /\ dns_pc = "pool"
    /\ future_state[d] = "running"
    /\ future_state' = [future_state EXCEPT ![d] = "done"]
    /\ future_result' = future_result @@ (d :> r)
    /\ UNCHANGED <<resolver_idx, attempts, query_resolver, counted, query_times,
                   dns_failures, results, failed_resolvers, ranked, dns_pc>>
    /\ UNCHANGED <<pingVars, gradeVars, recVars, benchVars, schemaVars, fallbackVars>>

\* as_completed yields the finished future of d; its outcome is counted
Collect(d) ==
    /\ dns_pc = "pool"
    /\ future_state[d] = "done"
    /\ future_state' = [future_state EXCEPT ![d] = "collected"]
    /\ counted' = [counted EXCEPT ![d] = @ + 1]
    /\ query_times' = collect_time(query_times, future_result[d])
    /\ dns_failures' = collect_failure(dns_failures, future_result[d])
    /\ UNCHANGED <<resolver_idx, future_result, attempts, query_resolver,
                   results, failed_resolvers, ranked, dns_pc>>
    /\ UNCHANGED <<pingVars, gradeVars, recVars, benchVars, schemaVars, fallbackVars>>

\* every future was collected: benchmark_resolver returns its DNSResult to
\* benchmark_all, which appends it and, after the last resolver, sorts and
\* returns the list
ResolverDone ==
    /\ dns_pc = "pool"
    /\ \A d \in Domains : future_state[d] = "collected"
    /\ results' = Append(results,
                         aggregate(Resolvers[resolver_idx], query_times, NumDomains))
    /\ failed_resolvers' =
          IF \A d \in Domains : future_result[d] = QueryFailed
          THEN failed_resolvers \cup {Resolvers[resolver_idx]}
          ELSE failed_resolvers
    /\ IF resolver_idx < Len(Resolvers)
       THEN /\ resolver_idx' = resolver_idx + 1
            /\ dns_pc' = "start"
            /\ UNCHANGED ranked
       ELSE /\ ranked' = sort_results(results')
            /\ dns_pc' = "done"
            /\ UNCHANGED resolver_idx
    /\ UNCHANGED <<future_state, future_result, attempts, query_resolver,
                   counted, query_times, dns_failures>>
    /\ UNCHANGED <<pingVars, gradeVars, recVars, benchVars, schemaVars, fallbackVars>>

NextDns ==
    \/ SubmitQueries
    \/ \E d \in Domains : WorkerStart(d)
    \/ \E d \in Domains, r \in QueryOutcomes : QueryReturn(d, r)
    \/ \E d \in Domains : Collect(d)
    \/ ResolverDone

SpecDns == InitDns /\ [][NextDns]_vars

----------------------------------------------------------------------------
(* Properties of DNSBenchmark, under SpecDns *)

DnsDone == dns_pc = "done"

\* benchmark_resolver has just returned: its accumulators still hold the
\* outcomes behind the last element of results
ResolverReturned == dns_pc \in {"start", "done"} /\ results # <<>>

LastResult == results[Len(results)]

Positive(r) == RGt(r.median_ms, RInt(0))

\* C5: the list benchmark_all returns is ascending in median_ms with every
\* median_ms = 0 entry after every positive one; it holds the same records
\* as were measured, so a totally failed resolver keeps median_ms = 0.
C5_Ranking ==
    DnsDone =>
        /\ \A i, j \in 1..Len(ranked) :
              (i < j /\ Positive(ranked[j])) =>
                  /\ Positive(ranked[i])
                  /\ RLe(ranked[i].median_ms, ranked[j].median_ms)
        /\ Len(ranked) = Len(results)
        /\ Range(ranked) = Range(results)
        /\ \A i \in 1..Len(ranked) :
              ranked[i].resolver \in failed_resolvers
                  => ranked[i].median_ms = RInt(0)

\* C5 witness: X fails every query, Y has median 8 and Z median 15; the
\* ranking is [Y, Z, X] and X still carries median_ms = 0.
C5_Witness ==
    /\ DnsDone
    /\ failed_resolvers = {"X"}
    /\ results[2].median_ms = RInt(8)
    /\ results[3].median_ms = RInt(15)
    /\ [i \in 1..Len(ranked) |-> ranked[i].resolver] = <<"Y", "Z", "X">>
    /\ ranked[3].median_ms = RInt(0)

\* C6: one DNSResult per configured resolver, in results and in the returned
\* ranking; a resolver whose queries all failed is present with median_ms =
\* p95_ms = success_rate = 0 and samples = the number of domains.
C6_OnePerResolver ==
    /\ Len(results) = (IF DnsDone THEN Len(Resolvers) ELSE resolver_idx - 1)
    /\ \A i \in 1..Len(results) :
          /\ results[i].resolver = Resolvers[i]
          /\ results[i].resolver \in failed_resolvers =>
                results[i] = [resolver |-> Resolvers[i], median_ms |-> RInt(0),
                              p95_ms |-> RInt(0), success_rate |-> RInt(0),
                              samples |-> NumDomains]
    /\ DnsDone =>
          /\ Len(ranked) = Len(Resolvers)
          /\ \A k \in 1..Len(Resolvers) :
                Cardinality({i \in 1..Len(ranked) :
                                ranked[i].resolver = Resolvers[k]}) = 1
          /\ \A i \in 1..Len(ranked) :
                ranked[i].resolver \in failed_resolvers =>
                    /\ ranked[i].median_ms = RInt(0)
                    /\ ranked[i].p95_ms = RInt(0)
                    /\ ranked[i].success_rate = RInt(0)
                    /\ ranked[i].samples = NumDomains

\* C6 witness: two of the three resolvers failed entirely and all three are
\* in the returned list.
C6_Witness ==
    /\ DnsDone
    /\ failed_resolvers = {"X", "Z"}
    /\ Len(ranked) = 3
    /\ Positive(ranked[1])

\* successes + failures as counted, against the domains and the result
CountedOnce ==
    /\ \A d \in DOMAIN future_state :
          /\ attempts[d] <= 1
          /\ counted[d] <= 1
          /\ counted[d] = 1 => attempts[d] = 1
    /\ ResolverReturned =>
          /\ \A d \in Domains : attempts[d] = 1 /\ counted[d] = 1
          /\ Len(query_times) + dns_failures = NumDomains
          /\ LastResult.samples = NumDomains

\* C7 (as stated): every domain gives one task counted once, so successes +
\* failures = number of domains = samples, and success_rate = successes /
\* number of domains * 100.
C7_ExactSuccessRate ==
    /\ CountedOnce
    /\ ResolverReturned =>
          LastResult.success_rate = Rat(100 * Len(query_times), NumDomains)

\* C7 (amended): every domain gives one task, run once and counted once as a
\* sample or as a failure, so successes + failures = number of domains =
\* samples; success_rate is successes / number of domains * 100 rounded to
\* one decimal place.
C7_CountedOnce ==
    /\ CountedOnce
    /\ ResolverReturned =>
          \E m \in 0..1000 :
              /\ LastResult.success_rate = Rat(m, 10)
              /\ 2 * Abs(m * NumDomains - 1000 * Len(query_times)) <= NumDomains

\* C7 witness: the first query failed and the other two finished in the
\* reverse of their submission order; 2 successes + 1 failure = 3 domains
\* and the success rate 66.66.. is reported as 66.7.
C7_Witness ==
    /\ ResolverReturned
    /\ NumDomains = 3
    /\ future_result[1] = QueryFailed
    /\ future_result[2] = RInt(8)
    /\ future_result[3] = RInt(15)
    /\ query_times = <<RInt(15), RInt(8)>>
    /\ dns_failures = 1
    /\ LastResult.samples = 3
    /\ LastResult.success_rate = Rat(667, 10)

\* C19: at every moment at most MaxWorkers (the pool width W) queries are
\* outstanding, however many domains are queued and in whatever order the
\* queries complete, and all outstanding queries go to the one resolver
\* being benchmarked: between two resolvers no query is outstanding or
\* queued.
C19_PoolWidth ==
    /\ Cardinality(Running) <= MaxWorkers
    /\ \A d \in Running : query_resolver[d] = resolver_idx
    /\ (dns_pc # "pool") => (Running = {} /\ Pending = {})

\* C19 witness: while the second resolver is benchmarked, MaxWorkers queries
\* are outstanding and a further domain is still queued.
C19_Witness ==
    /\ dns_pc = "pool"
    /\ resolver_idx = 2
    /\ Cardinality(Running) = MaxWorkers
    /\ Pending # {}
    /\ NumDomains > MaxWorkers

\* the successful latencies of the resolver just benchmarked, in the order
\* in which their queries were submitted
TimesBySubmission ==
    SelectSeq([d \in 1..NumDomains |-> future_result[d]],
              LAMBDA r : RGt(r, RInt(0)))

\* C25: the DNSResult benchmark_resolver returns depends only on the
\* per-domain outcomes, not on the order in which the queries complete: it
\* is the one computed from the outcomes in submission order; and while the
\* pool runs, every finished query can be collected whatever the state of
\* the other queries.
C25_OrderIndependent ==
    /\ ResolverReturned =>
          LastResult = aggregate(LastResult.resolver, TimesBySubmission, NumDomains)
    /\ (dns_pc = "pool") =>
          \A d \in Domains : (future_state[d] = "done") => ENABLED Collect(d)

\* C25 witness: a resolver has returned after two successful queries were
\* collected in the reverse of their submission order, with different
\* latencies, and a third query failed.
C25_Witness ==
    /\ ResolverReturned
    /\ Len(query_times) = 2
    /\ query_times # TimesBySubmission
    /\ dns_failures = 1
    /\ RLt(LastResult.median_ms, LastResult.p95_ms)

\* C22: for a resolver with n >= 1 successful query latencies, the median_ms
\* and p95_ms benchmark_resolver returns are the linear-interpolation
\* percentiles (rank k = (n-1)*p) at p = 0.50 and p = 0.95 of the sorted
\* latencies, except that for n = 1 p95 is that one value.
C22_InterpolatedPercentiles ==
    (ResolverReturned /\ query_times # <<>>) =>
        LET sorted_times == sorted(query_times) IN
        /\ LastResult.median_ms = percentile(sorted_times, Rat(50, 100))
        /\ LastResult.p95_ms =
              IF Len(query_times) = 1 THEN query_times[1]
              ELSE percentile(sorted_times, Rat(95, 100))

----------------------------------------------------------------------------
(* benchmark.py: BenchmarkOrchestrator.run_full_benchmark *)

ThroughputResult(download_mbps, upload_mbps, retransmits) ==
    [download_mbps |-> download_mbps, upload_mbps |-> upload_mbps,
     retransmits |-> retransmits]

JitterResult(mean_jitter_ms, max_jitter_ms, packet_loss, out_of_order) ==
    [mean_jitter_ms |-> mean_jitter_ms, max_jitter_ms |-> max_jitter_ms,
     packet_loss |-> packet_loss, out_of_order |-> out_of_order]

BufferbloatResult(idle, loaded, increase, pct, g) ==
    [idle_latency_ms |-> idle, loaded_latency_ms |-> loaded,
     latency_increase_ms |-> increase, latency_increase_pct |-> pct,
     grade |-> g]

\* the zero-valued records of lines 170-173 and 185-188
ZeroThroughput == ThroughputResult(RInt(0), RInt(0), 0)

ZeroJitter == JitterResult(RInt(0), RInt(0), RInt(0), 0)

\* What a collaborator call can end in: "measured" (a result from the
\* probe), "failed" (the collaborator caught its own failure and returned its
\* fallback record) or "raised" (an exception leaves the call).

\* run_icmp -> PingMeasurement.run -> asyncio.run(...): inside a running
\* event loop asyncio.run raises RuntimeError; otherwise the ping runs, and
\* _compute_statistics returns a result or raises (ValidationError on
\* samples = 0 when count is 0).
run_icmp(running) ==
    IF running THEN {"raised"} ELSE {"measured", "failed", "raised"}

icmp_value(outcome) ==
    IF outcome = "measured"
    THEN compute_statistics(2, <<RInt(12), RInt(14)>>, 0)
    ELSE compute_statistics(2, <<>>, 2)

\* measure_throughput: Iperf3Wrapper.measure_throughput catches every
\* exception of the probe and returns zeros (lines 147-154)
measure_throughput == {"measured", "failed", "raised"}

throughput_value_stale(outcome) ==
    ThroughputResult(Rat(953, 10), Rat(182, 10), 2)

throughput_value(outcome) ==
    IF outcome = "measured"
    THEN ThroughputResult(Rat(953, 10), Rat(182, 10), 2)
    ELSE ThroughputResult(RInt(0), RInt(0), 0)

\* measure_jitter, likewise (lines 192-199)
measure_jitter == {"measured", "failed", "raised"}

jitter_value(outcome) ==
    IF outcome = "measured"
    THEN JitterResult(Rat(25, 10), Rat(25, 10), Rat(1, 10), 0)
    ELSE JitterResult(RInt(0), RInt(0), RInt(0), 0)

\* _measure_bufferbloat from the p50 of the idle ping: the grade is computed
\* from the unrounded increase, the stored fields are rounded
measure_bufferbloat(idle_latency) ==
    LET loaded_latency == RMul(idle_latency, Rat(3, 2))
        latency_increase == RSub(loaded_latency, idle_latency)
        latency_increase_pct ==
            IF RGt(idle_latency, RInt(0))
            THEN RMul(RDiv(latency_increase, idle_latency), RInt(100))
            ELSE RInt(0)
        g == calculate_bufferbloat_grade(latency_increase)
    IN  BufferbloatResult(RRound(idle_latency, 2), RRound(loaded_latency, 2),
                          RRound(latency_increase, 2),
                          RRound(latency_increase_pct, 1), g)

\* p50 of the 50-sample idle ping, in ms: all lost (0), midpoints of integer
\* and of three-decimal round-trip times, values at and next to the idle
\* latency 20 whose increase is the A+/A boundary 10
IdleLatencies ==
    {RInt(0), Rat(10004, 1000), Rat(25, 2), Rat(19992, 1000), RInt(20),
     Rat(453, 10), RInt(800)}

\* benchmark_dns(num_domains=20): a ranked list, or an exception
benchmark_dns == {"measured", "raised"}

dns_value ==
    <<DNSResult("1.1.1.1", Rat(85, 10), RInt(12), RInt(100), 20),
      DNSResult("8.8.8.8", Rat(152, 10), RInt(22), RInt(95), 20)>>

InitBench ==
    /\ IdlePing
    /\ IdleGrade
    /\ IdleRec
    /\ IdleDns
    /\ IdleSchema
    /\ loop_running \in BOOLEAN
    /\ skip_throughput \in BOOLEAN
    /\ skip_dns \in BOOLEAN
    /\ bench_pc = "icmp"
    /\ icmp_result = Unbound
    /\ throughput_result = Unbound
    /\ jitter_result = Unbound
    /\ bufferbloat_result = Unbound
    /\ dns_results = <<>>
    /\ bound = {}
    /\ invoked = <<>>
    /\ in_progress = {}
    /\ bench_failed = {}
    /\ full_benchmark = Unbound

\* the collaborator each phase calls
PhaseCall ==
    [icmp |-> "run_icmp", throughput |-> "measure_throughput",
     jitter |-> "measure_jitter", bufferbloat |-> "_measure_bufferbloat",
     dns |-> "benchmark_dns"]

\* the phase after the given one, had the call been started without waiting
pc_without_waiting(phase) ==
    CASE phase = "icmp" -> "throughput" [] phase = "throughput" -> "jitter"
      [] phase = "jitter" -> "bufferbloat" [] phase = "bufferbloat" -> "dns"
      [] phase = "dns" -> "assemble"

\* every collaborator is called synchronously or awaited in place: control
\* stays at the call until it returns or raises
pc_during_call(phase) == phase

\* lines 165, 178, 181, 192 and 201: the call of the phase's collaborator
\* begins
CallCollaborator(phase) ==
    /\ bench_pc = phase
    /\ PhaseCall[phase] \notin in_progress
    /\ (phase = "throughput") => ~skip_throughput
    /\ (phase = "dns") => ~skip_dns
    /\ in_progress' = in_progress \cup {PhaseCall[phase]}
    /\ invoked' = Append(invoked, PhaseCall[phase])
    /\ bench_pc' = pc_during_call(phase)
    /\ UNCHANGED <<loop_running, skip_throughput, skip_dns, icmp_result,
                   throughput_result, jitter_result, bufferbloat_result,
                   dns_results, bound, bench_failed, full_benchmark>>
    /\ UNCHANGED <<pingVars, gradeVars, recVars, dnsVars, schemaVars>>

\* line 165: icmp_result = run_icmp(...), outside any try
IcmpPhase(outcome) ==
    /\ bench_pc = "icmp"
    /\ outcome \in run_icmp(loop_running)
    /\ "run_icmp" \in in_progress
    /\ in_progress' = in_progress \ {"run_icmp"}
    /\ IF outcome = "raised"
       THEN /\ bench_pc' = "raised"
            /\ bench_failed' = bench_failed \cup {"icmp"}
            /\ UNCHANGED <<icmp_result, bound>>
       ELSE /\ icmp_result' = icmp_value(outcome)
            /\ bound' = bound \cup {"icmp_result"}
            /\ bench_pc' = "throughput"
            /\ UNCHANGED bench_failed
    /\ UNCHANGED <<loop_running, skip_throughput, skip_dns, invoked, throughput_result,
                   jitter_result, bufferbloat_result, dns_results, full_benchmark>>
    /\ UNCHANGED <<pingVars, gradeVars, recVars, dnsVars, schemaVars>>

\* lines 168-174: skip_throughput
SkipThroughput ==
    /\ bench_pc = "throughput"
    /\ skip_throughput
    /\ throughput_result' = ZeroThroughput
    /\ jitter_result' = ZeroJitter
    /\ bound' = bound \cup {"throughput_result", "jitter_result"}
    /\ bench_pc' = "bufferbloat"
    /\ UNCHANGED <<loop_running, skip_throughput, skip_dns, in_progress, icmp_result,
                   bufferbloat_result, dns_results, invoked, bench_failed,
                   full_benchmark>>
    /\ UNCHANGED <<pingVars, gradeVars, recVars, dnsVars, schemaVars>>

\* lines 176-178 and 182-188: measure_throughput inside the try
ThroughputPhase(outcome) ==
    /\ bench_pc = "throughput"
    /\ ~skip_throughput
    /\ outcome \in measure_throughput
    /\ "measure_throughput" \in in_progress
    /\ in_progress' = in_progress \ {"measure_throughput"}
    /\ IF outcome = "raised"
       THEN /\ throughput_result' = ZeroThroughput
            /\ jitter_result' = ZeroJitter
            /\ bound' = bound \cup {"throughput_result", "jitter_result"}
            /\ bench_pc' = "bufferbloat"
       ELSE /\ throughput_result' = throughput_value(outcome)
            /\ bound' = bound \cup {"throughput_result"}
            /\ bench_pc' = "jitter"
            /\ UNCHANGED jitter_result
    /\ bench_failed' = IF outcome = "measured" THEN bench_failed
                       ELSE bench_failed \cup {"throughput"}
    /\ UNCHANGED <<loop_running, skip_throughput, skip_dns, invoked, icmp_result,
                   bufferbloat_result, dns_results, full_benchmark>>
    /\ UNCHANGED <<pingVars, gradeVars, recVars, dnsVars, schemaVars>>

\* lines 180-188: measure_jitter inside the same try
JitterPhase(outcome) ==
    /\ bench_pc = "jitter"
    /\ outcome \in measure_jitter
    /\ "measure_jitter" \in in_progress
    /\ in_progress' = in_progress \ {"measure_jitter"}
    /\ IF outcome = "raised"
       THEN /\ throughput_result' = ZeroThroughput
            /\ jitter_result' = ZeroJitter
       ELSE /\ jitter_result' = jitter_value(outcome)
            /\ UNCHANGED throughput_result
    /\ bound' = bound \cup {"jitter_result"}
    /\ bench_pc' = "bufferbloat"
    /\ bench_failed' = IF outcome = "measured" THEN bench_failed
                       ELSE bench_failed \cup {"jitter"}
    /\ UNCHANGED <<loop_running, skip_throughput, skip_dns, invoked, icmp_result,
                   bufferbloat_result, dns_results, full_benchmark>>
    /\ UNCHANGED <<pingVars, gradeVars, recVars, dnsVars, schemaVars>>

\* line 192: bufferbloat_result = await self._measure_bufferbloat(), outside
\* any try; the idle ping is awaited on the running loop
BufferbloatPhase(idle) ==
    /\ bench_pc = "bufferbloat"
    /\ "_measure_bufferbloat" \in in_progress
    /\ in_progress' = in_progress \ {"_measure_bufferbloat"}
    /\ bufferbloat_result' = measure_bufferbloat(idle)
    /\ bound' = bound \cup {"bufferbloat_result"}
    /\ bench_pc' = "dns"
    /\ UNCHANGED <<loop_running, skip_throughput, skip_dns, invoked, icmp_result,
                   throughput_result, jitter_result, dns_results, bench_failed,
                   full_benchmark>>
    /\ UNCHANGED <<pingVars, gradeVars, recVars, dnsVars, schemaVars>>

\* line 192 when an exception leaves _measure_bufferbloat
BufferbloatRaises ==
    /\ bench_pc = "bufferbloat"
    /\ "_measure_bufferbloat" \in in_progress
    /\ in_progress' = in_progress \ {"_measure_bufferbloat"}
    /\ bench_failed' = bench_failed \cup {"bufferbloat"}
    /\ bench_pc' = "raised"
    /\ UNCHANGED <<loop_running, skip_throughput, skip_dns, invoked, icmp_result,
                   throughput_result, jitter_result, bufferbloat_result,
                   dns_results, bound, full_benchmark>>
    /\ UNCHANGED <<pingVars, gradeVars, recVars, dnsVars, schemaVars>>

\* lines 195-197: skip_dns
SkipDns ==
    /\ bench_pc = "dns"
    /\ skip_dns
    /\ dns_results' = <<>>
    /\ bound' = bound \cup {"dns_results"}
    /\ bench_pc' = "assemble"
    /\ UNCHANGED <<loop_running, skip_throughput, skip_dns, in_progress, icmp_result,
                   throughput_result, jitter_result, bufferbloat_result,
                   invoked, bench_failed, full_benchmark>>
    /\ UNCHANGED <<pingVars, gradeVars, recVars, dnsVars, schemaVars>>

\* lines 199-204: benchmark_dns inside its try
DnsPhase(outcome) ==
    /\ bench_pc = "dns"
    /\ ~skip_dns
    /\ outcome \in benchmark_dns
    /\ "benchmark_dns" \in in_progress
    /\ in_progress' = in_progress \ {"benchmark_dns"}
    /\ dns_results' = IF outcome = "raised" THEN <<>> ELSE dns_value
    /\ bound' = bound \cup {"dns_results"}
    /\ bench_failed' = IF outcome = "raised"
                       THEN bench_failed \cup {"dns"} ELSE bench_failed
    /\ bench_pc' = "assemble"
    /\ UNCHANGED <<loop_running, skip_throughput, skip_dns, invoked, icmp_result,
                   throughput_result, jitter_result, bufferbloat_result,
                   full_benchmark>>
    /\ UNCHANGED <<pingVars, gradeVars, recVars, dnsVars, schemaVars>>

\* lines 207-224: assemble the BenchmarkResult and return it
Assemble ==
    /\ bench_pc = "assemble"
    /\ full_benchmark' =
          [icmp |-> icmp_result, jitter |-> jitter_result,
           throughput |-> throughput_result,
           bufferbloat |-> bufferbloat_result, dns |-> dns_results,
           metadata |-> [skip_throughput |-> skip_throughput,
                         skip_dns |-> skip_dns]]
    /\ bench_pc' = "returned"
    /\ UNCHANGED <<loop_running, skip_throughput, skip_dns, in_progress, icmp_result,
                   throughput_result, jitter_result, bufferbloat_result,
                   dns_results, bound, invoked, bench_failed>>
    /\ UNCHANGED <<pingVars, gradeVars, recVars, dnsVars, schemaVars>>

NextBench ==
    \/ \E phase \in DOMAIN PhaseCall : CallCollaborator(phase)
    \/ \E outcome \in {"measured", "failed", "raised"} : IcmpPhase(outcome)
    \/ SkipThroughput
    \/ \E outcome \in measure_throughput : ThroughputPhase(outcome)
    \/ \E outcome \in measure_jitter : JitterPhase(outcome)
    \/ \E idle \in IdleLatencies : BufferbloatPhase(idle)
    \/ BufferbloatRaises
    \/ SkipDns
    \/ \E outcome \in benchmark_dns : DnsPhase(outcome)
    \/ Assemble

SpecBench == InitBench /\ [][NextBench]_vars

----------------------------------------------------------------------------
(* Properties of run_full_benchmark, under SpecBench *)

BenchLocals ==
    {"icmp_result", "throughput_result", "jitter_result",
     "bufferbloat_result", "dns_results"}

\* C15: no failure raised inside a phase (ICMP latency, throughput, jitter,
\* bufferbloat, DNS) leaves run_full_benchmark: each is caught at its phase,
\* so the call never ends by raising.
C15_FailureIsolation == bench_pc # "raised"

C20_GradeOfStoredIncrease ==
    ("bufferbloat_result" \in bound) =>
        bufferbloat_result.grade =
            calculate_bufferbloat_grade(bufferbloat_result.latency_increase_ms)

CallRank(name) ==
    CASE name = "run_icmp" -> 1 [] name = "measure_throughput" -> 2
      [] name = "measure_jitter" -> 3 [] name = "_measure_bufferbloat" -> 4
      [] name = "benchmark_dns" -> 5

\* C27: the phases of run_full_benchmark start in the order ICMP latency,
\* throughput, jitter, bufferbloat, DNS; a phase starts only when every
\* phase started before it has finished, so at most one measurement is in
\* progress at any time, and it is the one started last; the BenchmarkResult
\* is assembled only when the bufferbloat phase and, unless skipped, the
\* throughput and DNS phases were started and nothing is in progress.
C27_SequentialPhases ==
    /\ \A i, j \in 1..Len(invoked) :
          (i < j) => CallRank(invoked[i]) < CallRank(invoked[j])
    /\ Cardinality(in_progress) <= 1
    /\ \A name \in in_progress : name = invoked[Len(invoked)]
    /\ (bench_pc \in {"assemble", "returned"}) =>
          /\ in_progress = {}
          /\ "run_icmp" \in Range(invoked)
          /\ "_measure_bufferbloat" \in Range(invoked)
          /\ ~skip_throughput => "measure_throughput" \in Range(invoked)
          /\ ~skip_dns => "benchmark_dns" \in Range(invoked)

\* C27 witness: the DNS benchmark is in progress as the fifth collaborator
\* called, after the throughput and the jitter probe, and no other is.
C27_Witness ==
    /\ in_progress = {"benchmark_dns"}
    /\ invoked = <<"run_icmp", "measure_throughput", "measure_jitter",
                   "_measure_bufferbloat", "benchmark_dns">>
    /\ bound = BenchLocals \ {"dns_results"}

\* C28: when run_full_benchmark runs on the event loop run_and_save started,
\* run_icmp (which starts an event loop of its own) is never called in that
\* thread, and once the ICMP phase is over icmp_result holds an ICMPResult.
C28_IcmpUnderRunAndSave ==
    loop_running =>
        /\ "run_icmp" \notin Range(invoked)
        /\ (bench_pc # "icmp") => "icmp_result" \in bound

\* x in hundredths of a millisecond, for x a multiple of 0.01 ms
Hundredths(x) == (100 * x[1]) \div x[2]

\* C21: every BufferbloatResult of _measure_bufferbloat has, on its stored
\* fields in hundredths of a millisecond, loaded_latency_ms >= idle_latency_ms
\* and latency_increase_ms = loaded_latency_ms - idle_latency_ms >= 0.
C21_StoredIncrease ==
    ("bufferbloat_result" \in bound) =>
        LET idle == Hundredths(bufferbloat_result.idle_latency_ms)
            loaded == Hundredths(bufferbloat_result.loaded_latency_ms)
            increase == Hundredths(bufferbloat_result.latency_increase_ms)
        IN  /\ loaded >= idle
            /\ increase = loaded - idle
            /\ increase >= 0

----------------------------------------------------------------------------
(* json_schema.py: the pydantic models *)

\* Python None where a float is expected
None == <<0, 0>>

LatencyFields == {"p50", "p90", "p95", "p99", "min", "max", "mean", "stddev"}

\* BufferbloatResult.compute_increase, the mode='before' validator of
\* latency_increase_ms: a value that is not None is passed on as it is
compute_increase(v, data) ==
    IF v # None THEN v
    ELSE RSub(data.loaded_latency_ms, data.idle_latency_ms)

before_validators(kind, a) ==
    IF kind = "BufferbloatResult"
    THEN [a EXCEPT !.latency_increase_ms = compute_increase(@, a)]
    ELSE a

\* the fields whose Field(...) constraint (ge / le) the value violates
field_errors(kind, a) ==
    CASE kind = "ICMPResult" ->
            {f \in LatencyFields : ~RLe(RInt(0), a[f])}
            \cup (IF a.samples >= 1 THEN {} ELSE {"samples"})
            \cup (IF RLe(RInt(0), a.packet_loss) /\ RLe(a.packet_loss, RInt(100))
                  THEN {} ELSE {"packet_loss"})
      [] kind = "DNSResult" ->
            {f \in {"median_ms", "p95_ms"} : ~RLe(RInt(0), a[f])}
            \cup (IF a.samples >= 1 THEN {} ELSE {"samples"})
            \cup (IF RLe(RInt(0), a.success_rate) /\ RLe(a.success_rate, RInt(100))
                  THEN {} ELSE {"success_rate"})
      [] kind = "BufferbloatResult" ->
            {f \in {"idle_latency_ms", "loaded_latency_ms",
                    "latency_increase_ms", "latency_increase_pct"} :
                ~RLe(RInt(0), a[f])}

Clamp(v, lo, hi) == IF RLt(v, lo) THEN lo ELSE IF RGt(v, hi) THEN hi ELSE v

validate_clamping(kind, a) ==
    LET data == before_validators(kind, a)
    IN  IF field_errors(kind, data) \subseteq {"packet_loss", "success_rate"}
        THEN [raised |-> FALSE,
              obj |-> IF kind = "ICMPResult"
                      THEN [data EXCEPT !.packet_loss = Clamp(@, RInt(0), RInt(100))]
                      ELSE IF kind = "DNSResult"
                      THEN [data EXCEPT !.success_rate = Clamp(@, RInt(0), RInt(100))]
                      ELSE data]
        ELSE [raised |-> TRUE, obj |-> Unbound]

\* BaseModel.__init__(**a): the object with the given values, or a
\* ValidationError when a field violates its constraint
validate(kind, a) ==
    LET data == before_validators(kind, a)
    IN  IF field_errors(kind, data) = {}
        THEN [raised |-> FALSE, obj |-> data]
        ELSE [raised |-> TRUE, obj |-> Unbound]

\* constructor arguments around the limits of the constraints; the values
\* of test_icmp_result_validation_* are among them
ICMPResultArgs ==
    {[samples |-> n, p50 |-> p, p90 |-> Rat(185, 10), p95 |-> Rat(221, 10),
      p99 |-> Rat(452, 10), min |-> Rat(81, 10), max |-> Rat(1205, 10),
      mean |-> Rat(152, 10), stddev |-> sd, packet_loss |-> loss,
      raw_samples |-> <<>>] :
        n \in {0, 1, 1000}, p \in {RInt(-5), RInt(0), Rat(123, 10)},
        sd \in {Rat(-1, 10), Rat(83, 10)},
        loss \in {Rat(-1, 10), RInt(0), Rat(1, 2), RInt(100), RInt(150)}}

DNSResultArgs ==
    {[resolver |-> "1.1.1.1", median_ms |-> m, p95_ms |-> RInt(12),
      success_rate |-> sr, samples |-> n] :
        m \in {RInt(-1), Rat(85, 10)},
        sr \in {Rat(-1, 10), RInt(0), RInt(100), Rat(1001, 10)},
        n \in {0, 1, 20}}

BufferbloatResultArgs ==
    {[idle_latency_ms |-> idle, loaded_latency_ms |-> loaded,
      latency_increase_ms |-> inc, latency_increase_pct |-> RInt(50),
      grade |-> "A+"] :
        idle \in {Rat(25, 2), RInt(20)},
        loaded \in {Rat(25, 2), Rat(75, 4)},
        inc \in {None, Rat(-1, 100), RInt(0), Rat(25, 4)}}

InitValidate ==
    /\ IdlePing
    /\ IdleGrade
    /\ IdleRec
    /\ IdleDns
    /\ IdleBench
    /\ schema_kind = "none"
    /\ schema_args = Unbound
    /\ schema_obj = Unbound
    /\ schema_pc = "ready"
    /\ dumped = Unbound
    /\ rebuilt = Unbound

\* a result record is constructed from keyword arguments
Construct(kind, a) ==
    /\ schema_pc \in {"ready", "constructed", "ValidationError"}
    /\ schema_kind' = kind
    /\ schema_args' = a
    /\ schema_obj' = validate(kind, a).obj
    /\ schema_pc' = IF validate(kind, a).raised
                    THEN "ValidationError" ELSE "constructed"
    /\ UNCHANGED <<dumped, rebuilt>>
    /\ UNCHANGED <<pingVars, gradeVars, recVars, dnsVars, benchVars>>

NextValidate ==
    \/ \E a \in ICMPResultArgs : Construct("ICMPResult", a)
    \/ \E a \in DNSResultArgs : Construct("DNSResult", a)
    \/ \E a \in BufferbloatResultArgs : Construct("BufferbloatResult", a)

SpecValidate == InitValidate /\ [][NextValidate]_vars

----------------------------------------------------------------------------
(* Properties of the result records, under SpecValidate *)

\* the out-of-range arguments the records must refuse
OutOfRange ==
    CASE schema_kind = "ICMPResult" ->
            \/ \E f \in LatencyFields : RLt(schema_args[f], RInt(0))
            \/ RLt(schema_args.packet_loss, RInt(0))
            \/ RGt(schema_args.packet_loss, RInt(100))
            \/ schema_args.samples < 1
      [] schema_kind = "DNSResult" ->
            \/ RLt(schema_args.success_rate, RInt(0))
            \/ RGt(schema_args.success_rate, RInt(100))
            \/ schema_args.samples < 1
      [] schema_kind = "BufferbloatResult" ->
            /\ schema_args.latency_increase_ms # None
            /\ RLt(schema_args.latency_increase_ms, RInt(0))
      [] OTHER -> FALSE

\* C18: constructing an ICMPResult with a negative latency field, with
\* packet_loss outside [0, 100] or with samples < 1, a DNSResult with
\* success_rate outside [0, 100] or samples < 1, or a BufferbloatResult with
\* a negative latency_increase_ms ends in a validation error and no object;
\* and an object that is constructed holds every value exactly as it was
\* passed, none moved into range.
C18_RejectedNotClamped ==
    (schema_pc \in {"constructed", "ValidationError"}) =>
        /\ OutOfRange => (schema_pc = "ValidationError" /\ schema_obj = Unbound)
        /\ (schema_pc = "constructed") =>
              schema_obj =
                 IF schema_kind = "BufferbloatResult"
                    /\ schema_args.latency_increase_ms = None
                 THEN [schema_args EXCEPT !.latency_increase_ms =
                          RSub(schema_args.loaded_latency_ms,
                               schema_args.idle_latency_ms)]
                 ELSE schema_args

\* C18 witness: an ICMPResult whose only invalid argument is
\* packet_loss = 150 was refused.
C18_Witness ==
    /\ schema_pc = "ValidationError"
    /\ schema_kind = "ICMPResult"
    /\ schema_args.packet_loss = RInt(150)
    /\ schema_args.samples = 1000
    /\ schema_args.p50 = Rat(123, 10)
    /\ schema_args.stddev = Rat(83, 10)
    /\ schema_obj = Unbound

----------------------------------------------------------------------------
(* benchmark.py save_benchmark / main.py recommend: BenchmarkResult to JSON *)
(* data and back                                                           *)

\* JSON data as json.dump writes and json.load returns it: every value
\* carries its JSON type; objects are records and arrays are sequences.
JStr(v) == [str |-> v]
JInt(n) == [int |-> n]
JFloat(x) == [float |-> x]
JBool(b) == [bool |-> b]
JNull == [null |-> TRUE]

\* datetime.now(): seconds since some day and the microsecond field
datetime(second, microsecond) == [second |-> second, microsecond |-> microsecond]

isoformat_seconds(dt) == JStr(<<dt.second>>)

\* datetime.isoformat(): the fraction is written only when it is not zero
isoformat(dt) ==
    JStr(IF dt.microsecond = 0 THEN <<dt.second>>
         ELSE <<dt.second, dt.microsecond>>)

\* pydantic's datetime parsing of an ISO 8601 string
parse_datetime(j) ==
    IF Len(j.str) = 1 THEN datetime(j.str[1], 0)
    ELSE datetime(j.str[1], j.str[2])

BufferbloatGradeValues == {"A+", "A", "B", "C", "D", "F"}

\* BufferbloatGrade(value): the member with that value
parse_grade(j) == IF j.str \in BufferbloatGradeValues THEN j.str ELSE Unbound

\* a float field takes a JSON float or a JSON integer
parse_float(j) == IF "float" \in DOMAIN j THEN j.float ELSE RInt(j.int)

parse_int(j) == j.int

dump_floats(s) == [i \in 1..Len(s) |-> JFloat(s[i])]

parse_floats(j) == [i \in 1..Len(j) |-> parse_float(j[i])]

\* model_dump(mode='json') of the nested models
dump_ICMPResult(o) ==
    [samples |-> JInt(o.samples), p50 |-> JFloat(o.p50), p90 |-> JFloat(o.p90),
     p95 |-> JFloat(o.p95), p99 |-> JFloat(o.p99), min |-> JFloat(o.min),
     max |-> JFloat(o.max), mean |-> JFloat(o.mean),
     stddev |-> JFloat(o.stddev), packet_loss |-> JFloat(o.packet_loss),
     raw_samples |-> dump_floats(o.raw_samples)]

dump_JitterResult(o) ==
    [mean_jitter_ms |-> JFloat(o.mean_jitter_ms),
     max_jitter_ms |-> JFloat(o.max_jitter_ms),
     packet_loss |-> JFloat(o.packet_loss),
     out_of_order |-> JInt(o.out_of_order)]

dump_ThroughputResult(o) ==
    [download_mbps |-> JFloat(o.download_mbps),
     upload_mbps |-> JFloat(o.upload_mbps),
     retransmits |-> JInt(o.retransmits)]

dump_BufferbloatResult(o) ==
    [idle_latency_ms |-> JFloat(o.idle_latency_ms),
     loaded_latency_ms |-> JFloat(o.loaded_latency_ms),
     latency_increase_ms |-> JFloat(o.latency_increase_ms),
     latency_increase_pct |-> JFloat(o.latency_increase_pct),
     grade |-> JStr(o.grade)]

dump_DNSResult(o) ==
    [resolver |-> JStr(o.resolver), median_ms |-> JFloat(o.median_ms),
     p95_ms |-> JFloat(o.p95_ms), success_rate |-> JFloat(o.success_rate),
     samples |-> JInt(o.samples)]

\* BenchmarkResult.model_dump(mode='json'); system_info and metadata are
\* Dict[str, Any] holding JSON values already
model_dump(o) ==
    [timestamp |-> isoformat(o.timestamp),
     target |-> JStr(o.target),
     system_info |-> o.system_info,
     icmp |-> dump_ICMPResult(o.icmp),
     jitter |-> dump_JitterResult(o.jitter),
     throughput |-> dump_ThroughputResult(o.throughput),
     bufferbloat |-> dump_BufferbloatResult(o.bufferbloat),
     dns |-> [i \in 1..Len(o.dns) |-> dump_DNSResult(o.dns[i])],
     metadata |-> o.metadata]

\* the nested models rebuilt from JSON data, each through its validation
load_ICMPResult(j) ==
    validate("ICMPResult",
        [samples |-> parse_int(j.samples), p50 |-> parse_float(j.p50),
         p90 |-> parse_float(j.p90), p95 |-> parse_float(j.p95),
         p99 |-> parse_float(j.p99), min |-> parse_float(j.min),
         max |-> parse_float(j.max), mean |-> parse_float(j.mean),
         stddev |-> parse_float(j.stddev),
         packet_loss |-> parse_float(j.packet_loss),
         raw_samples |-> parse_floats(j.raw_samples)]).obj

load_JitterResult(j) ==
    JitterResult(parse_float(j.mean_jitter_ms), parse_float(j.max_jitter_ms),
                 parse_float(j.packet_loss), parse_int(j.out_of_order))

load_ThroughputResult(j) ==
    ThroughputResult(parse_float(j.download_mbps), parse_float(j.upload_mbps),
                     parse_int(j.retransmits))

load_BufferbloatResult(j) ==
    validate("BufferbloatResult",
        BufferbloatResult(parse_float(j.idle_latency_ms),
                          parse_float(j.loaded_latency_ms),
                          parse_float(j.latency_increase_ms),
                          parse_float(j.latency_increase_pct),
                          parse_grade(j.grade))).obj

load_DNSResult(j) ==
    validate("DNSResult",
        DNSResult(j.resolver.str, parse_float(j.median_ms),
                  parse_float(j.p95_ms), parse_float(j.success_rate),
                  parse_int(j.samples))).obj

\* BenchmarkResult(**data)
load_BenchmarkResult(data) ==
    [timestamp |-> parse_datetime(data.timestamp),
     target |-> data.target.str,
     system_info |-> data.system_info,
     icmp |-> load_ICMPResult(data.icmp),
     jitter |-> load_JitterResult(data.jitter),
     throughput |-> load_ThroughputResult(data.throughput),
     bufferbloat |-> load_BufferbloatResult(data.bufferbloat),
     dns |-> [i \in 1..Len(data.dns) |-> load_DNSResult(data.dns[i])],
     metadata |-> data.metadata]

\* _get_system_info: the full map (cpu_count may be None) and the map of its
\* except branch
SystemInfos ==
    {[os |-> JStr("Linux"), cpu_count |-> JNull, memory_gb |-> JFloat(Rat(1562, 100)),
      network_interfaces |-> <<[name |-> JStr("eth0"), address |-> JStr("10.0.0.2")]>>],
     [os |-> JStr("Windows"), error |-> JStr("psutil")]}

\* the ICMPResult of the test fixture and one with zero latencies
IcmpRecords ==
    {a \in ICMPResultArgs :
        /\ a.samples = 1000
        /\ a.stddev = Rat(83, 10)
        /\ a.packet_loss = Rat(1, 2)
        /\ a.p50 \in {RInt(0), Rat(123, 10)}}

\* what _measure_bufferbloat returns, and the record of the test fixture
BufferbloatRecords ==
    {measure_bufferbloat(idle) : idle \in IdleLatencies}
    \cup {BufferbloatResult(Rat(125, 10), Rat(1563, 10), Rat(1438, 10),
                            Rat(11504, 10), "C")}

\* the BenchmarkResults run_full_benchmark assembles
BenchmarkResults ==
    {[timestamp |-> datetime(1708093800, us),
      target |-> "1.1.1.1",
      system_info |-> si,
      icmp |-> ic,
      jitter |-> jitter_value(probes),
      throughput |-> throughput_value(probes),
      bufferbloat |-> bb,
      dns |-> d,
      metadata |-> [ping_count |-> JInt(1000),
                    skip_throughput |-> JBool(probes = "skipped"),
                    skip_dns |-> JBool(skip_d /\ d = <<>>)]] :
        us \in {0, 123456}, si \in SystemInfos, ic \in IcmpRecords,
        probes \in {"measured", "failed", "skipped"}, bb \in BufferbloatRecords,
        d \in {<<>>, dns_value, <<dns_value[2], dns_value[1]>>},
        skip_d \in BOOLEAN}

InitRoundTrip ==
    /\ IdlePing
    /\ IdleGrade
    /\ IdleRec
    /\ IdleDns
    /\ IdleBench
    /\ schema_kind = "BenchmarkResult"
    /\ schema_args \in BenchmarkResults
    /\ schema_obj = schema_args
    /\ schema_pc = "constructed"
    /\ dumped = Unbound
    /\ rebuilt = Unbound

\* save_benchmark: json.dump(benchmark.model_dump(mode='json'), f)
SaveBenchmark ==
    /\ schema_pc = "constructed"
    /\ schema_kind = "BenchmarkResult"
    /\ dumped' = model_dump(schema_obj)
    /\ schema_pc' = "dumped"
    /\ UNCHANGED <<schema_kind, schema_args, schema_obj, rebuilt>>
    /\ UNCHANGED <<pingVars, gradeVars, recVars, dnsVars, benchVars>>

\* recommend: data = json.load(f); benchmark = BenchmarkResult(**data)
LoadBenchmark ==
    /\ schema_pc = "dumped"
    /\ rebuilt' = load_BenchmarkResult(dumped)
    /\ schema_pc' = "rebuilt"
    /\ UNCHANGED <<schema_kind, schema_args, schema_obj, dumped>>
    /\ UNCHANGED <<pingVars, gradeVars, recVars, dnsVars, benchVars>>

NextRoundTrip == SaveBenchmark \/ LoadBenchmark

SpecRoundTrip == InitRoundTrip /\ [][NextRoundTrip]_vars

----------------------------------------------------------------------------
(* Properties of the JSON round trip, under SpecRoundTrip *)

----------------------------------------------------------------------------
(* dns_bench.py: DNSBenchmark._query_domain_fallback in the pool's threads *)

FallbackCalls == 1..MaxFallbackCalls

\* timeout: float = 2.0, the argument of every call
QueryTimeout == RInt(2)

\* the default timeout of the process before the benchmark: None unless the
\* application has set one
FirstTimeouts == {None, RInt(30)}

InitFallback ==
    /\ IdlePing
    /\ IdleGrade
    /\ IdleRec
    /\ IdleBench
    /\ IdleSchema
    /\ resolver_idx = 0
    /\ future_state = <<>>
    /\ future_result = <<>>
    /\ attempts = <<>>
    /\ query_resolver = <<>>
    /\ counted = <<>>
    /\ query_times = <<>>
    /\ dns_failures = 0
    /\ results = <<>>
    /\ failed_resolvers = {}
    /\ ranked = <<>>
    /\ dns_pc = "idle"
    /\ first_timeout \in FirstTimeouts
    /\ default_timeout = first_timeout
    /\ fallback_pc = [c \in FallbackCalls |-> "start"]
    /\ old_timeout = [c \in FallbackCalls |-> None]
    /\ fallback_result = [c \in FallbackCalls |-> "none"]

\* line 108: old_timeout = socket.getdefaulttimeout()
GetDefaultTimeout(c) ==
    /\ fallback_pc[c] = "start"
    /\ old_timeout' = [old_timeout EXCEPT ![c] = default_timeout]
    /\ fallback_pc' = [fallback_pc EXCEPT ![c] = "saved"]
    /\ UNCHANGED <<default_timeout, first_timeout, fallback_result>>
    /\ UNCHANGED <<resolver_idx, future_state, future_result, attempts,
                   query_resolver, counted, query_times, dns_failures, results,
                   failed_resolvers, ranked, dns_pc>>
    /\ UNCHANGED <<pingVars, gradeVars, recVars, benchVars, schemaVars>>

\* line 109: socket.setdefaulttimeout(timeout)
SetDefaultTimeout(c) ==
    /\ fallback_pc[c] = "saved"
    /\ default_timeout' = QueryTimeout
    /\ fallback_pc' = [fallback_pc EXCEPT ![c] = "resolving"]
    /\ UNCHANGED <<first_timeout, old_timeout, fallback_result>>
    /\ UNCHANGED <<resolver_idx, future_state, future_result, attempts,
                   query_resolver, counted, query_times, dns_failures, results,
                   failed_resolvers, ranked, dns_pc>>
    /\ UNCHANGED <<pingVars, gradeVars, recVars, benchVars, schemaVars>>

\* lines 111-113 and 118-120: socket.gethostbyname(domain) returns, or raises
\* and the except clause returns -1
GetHostByName(c, outcome) ==
    /\ fallback_pc[c] = "resolving"
    /\ IF outcome = "resolved"
       THEN /\ fallback_pc' = [fallback_pc EXCEPT ![c] = "resolved"]
            /\ UNCHANGED fallback_result
       ELSE /\ fallback_pc' = [fallback_pc EXCEPT ![c] = "returned"]
            /\ fallback_result' = [fallback_result EXCEPT ![c] = "-1"]
    /\ UNCHANGED <<default_timeout, first_timeout, old_timeout>>
    /\ UNCHANGED <<resolver_idx, future_state, future_result, attempts,
                   query_resolver, counted, query_times, dns_failures, results,
                   failed_resolvers, ranked, dns_pc>>
    /\ UNCHANGED <<pingVars, gradeVars, recVars, benchVars, schemaVars>>

\* lines 115-116: socket.setdefaulttimeout(old_timeout); return duration
RestoreDefaultTimeout(c) ==
    /\ fallback_pc[c] = "resolved"
    /\ default_timeout' = old_timeout[c]
    /\ fallback_pc' = [fallback_pc EXCEPT ![c] = "returned"]
    /\ fallback_result' = [fallback_result EXCEPT ![c] = "duration"]
    /\ UNCHANGED <<first_timeout, old_timeout>>
    /\ UNCHANGED <<resolver_idx, future_state, future_result, attempts,
                   query_resolver, counted, query_times, dns_failures, results,
                   failed_resolvers, ranked, dns_pc>>
    /\ UNCHANGED <<pingVars, gradeVars, recVars, benchVars, schemaVars>>

NextFallback ==
    \E c \in FallbackCalls :
        \/ GetDefaultTimeout(c)
        \/ SetDefaultTimeout(c)
        \/ \E outcome \in {"resolved", "raised"} : GetHostByName(c, outcome)
        \/ RestoreDefaultTimeout(c)

SpecFallback == InitFallback /\ [][NextFallback]_vars

----------------------------------------------------------------------------
(* Properties of _query_domain_fallback, under SpecFallback *)

\* C30: whenever no fallback query is in progress (each call has either not
\* started or has returned, with a duration or with -1), the socket default
\* timeout is the value it had before the first call.
C30_TimeoutRestored ==
    (\A c \in FallbackCalls : fallback_pc[c] \in {"start", "returned"}) =>
        default_timeout = first_timeout

====
